---------------------------- MODULE Spec2Model ----------------------------
(***************************************************************************)
(* Model of the mutation-safety core of mochi-mcp: the confirmation-token  *)
(* store (src/src/utils/tokens.ts) and the two-phase preview/apply tool    *)
(* handlers (src/src/tools/write.ts, the tag previews of tools/read.ts).   *)
(*                                                                         *)
(* JavaScript strings that the code lower-cases or trims are sequences of  *)
(* one-character strings; a card's content is the sequence of its lines.   *)
(* Handlers are async functions on one event loop: the code between two    *)
(* awaits runs as one atomic step, and every call of the external API is   *)
(* an await whose outcome (value or throw) is the collaborator's choice.   *)
(***************************************************************************)
EXTENDS Integers, Sequences, FiniteSets, TLC

VARIABLES
    now,                \* the wall clock, in ms (new Date() / Date.now())
    config,             \* Config: tokenExpiryMins
    pendingOperations,  \* tokens.ts: Map<string, PendingOperation>
    serial,             \* ghost: number of tokens the tool handlers have issued
    issued,             \* ghost: the token ids createToken has ever returned
    obtained,           \* ghost: serials of the operations consumeToken handed to an apply
    raced,              \* ghost: some operation was handed out twice
    captured,           \* ghost: per serial, the preview call that issued the token
    slot,               \* per concurrent tool call: the handler's frame while it awaits
    nStarted,           \* number of preview calls started (bounds the run)
    mutations,          \* log of the mutating calls made on the external API
    last,               \* the tool call that returned most recently, with its result
    hist                \* TokenSpec: the two most recent direct calls of the token API

vars == <<now, config, pendingOperations, serial, issued, obtained, raced, captured,
          slot, nStarted, mutations, last, hist>>

-----------------------------------------------------------------------------
(* Bounds of the model *)

MaxTicks == 1       \* millisecond clock steps per run
MaxMinutes == 1     \* minute clock steps per run
MaxPreviews == 1    \* preview calls per run
MaxTags == 2        \* tags per list in the tag computations
MaxDeletes == 2     \* calls of the delete and deck tools per run
MaxScans == 1       \* list and search calls per run
MaxTextLen == 3     \* characters of a text handed to the diff engine

-----------------------------------------------------------------------------
(* Strings *)

Upper == <<"A","B","C","D","E","F","G","H","I","J","K","L","M",
           "N","O","P","Q","R","S","T","U","V","W","X","Y","Z">>
Lower == <<"a","b","c","d","e","f","g","h","i","j","k","l","m",
           "n","o","p","q","r","s","t","u","v","w","x","y","z">>

WhiteSpace == {" ", "\t", "\n"}

toLowerChar(c) ==
    IF \E i \in DOMAIN Upper : Upper[i] = c
    THEN Lower[CHOOSE i \in DOMAIN Upper : Upper[i] = c]
    ELSE c

\* String.prototype.toLowerCase
toLowerCase(s) == [i \in DOMAIN s |-> toLowerChar(s[i])]

\* String.prototype.trim: drops the white space at both ends
trim(s) ==
    LET keep == {i \in DOMAIN s : s[i] \notin WhiteSpace}
    IN  IF keep = {} THEN <<>>
        ELSE LET lo == CHOOSE i \in keep : \A j \in keep : i <= j
                 hi == CHOOSE i \in keep : \A j \in keep : j <= i
             IN  SubSeq(s, lo, hi)

ConfirmCreate == <<"c","o","n","f","i","r","m"," ","c","r","e","a","t","e">>
ConfirmUpdate == <<"c","o","n","f","i","r","m"," ","u","p","d","a","t","e">>
ConfirmBatchUpdate ==
    <<"c","o","n","f","i","r","m"," ","b","a","t","c","h"," ","u","p","d","a","t","e">>
ConfirmTags == <<"c","o","n","f","i","r","m"," ","t","a","g","s">>

\* the confirmation texts a caller types
Confirmations ==
    { <<" ","C","o","n","f","i","r","m"," ","C","r","e","a","t","e"," ">>,
      <<"C","o","n","f","i","r","m"," ","U","p","d","a","t","e">>,
      <<"C","O","N","F","I","R","M"," ","B","A","T","C","H"," ","U","P","D","A","T","E","\n">>,
      <<"\t","c","o","n","f","i","r","m"," ","t","a","g","s">>,
      <<"c","o","n","f","i","r","m"," "," ","c","r","e","a","t","e">> }

-----------------------------------------------------------------------------
(* Token store: src/src/utils/tokens.ts *)

TokenIds == {"t1", "t2"}                 \* the ids generateTokenId can draw
OpTypes == {"create_card", "update_card", "batch_update_card", "batch_tag_update"}
ExpiryMinsValues == {-1, 0, 1}

null == [type |-> "null"]                \* the null a lookup returns

\* new Date(now.getTime() + expiryMins * 60 * 1000)
expiryTime(t, expiryMins) == t + expiryMins * 60 * 1000

\* `now > op.expiresAt`
isExpired(op, t) == t > op.expiresAt

\* a sweep that removes nothing
cleanNothing(ops, t) == ops

\* cleanExpiredTokens(): delete every entry with now > expiresAt
cleanExpiredTokens(ops, t) ==
    [k \in {k \in DOMAIN ops : ~isExpired(ops[k], t)} |-> ops[k]]

\* a createToken that leaves an entry already stored under the drawn id
createTokenKeepExisting(ops, token, type, data, expiryMins, t, sn) ==
    LET cleaned == cleanExpiredTokens(ops, t)
    IN  [k \in DOMAIN cleaned \cup {token} |->
            IF k \in DOMAIN cleaned
            THEN cleaned[k]
            ELSE [type |-> type, data |-> data, createdAt |-> t,
                  expiresAt |-> expiryTime(t, expiryMins), sn |-> sn]]

\* createToken(type, data, expiryMins) when generateTokenId() draws `token`;
\* sn is the ghost serial number of the call
createToken(ops, token, type, data, expiryMins, t, sn) ==
    LET cleaned == cleanExpiredTokens(ops, t)
    IN  [k \in DOMAIN cleaned \cup {token} |->
            IF k = token
            THEN [type |-> type, data |-> data, createdAt |-> t,
                  expiresAt |-> expiryTime(t, expiryMins), sn |-> sn]
            ELSE cleaned[k]]

\* consumeToken without `pendingOperations.delete(token)`
consumeTokenNoDelete(ops, token, t) ==
    IF token \notin DOMAIN ops \/ isExpired(ops[token], t)
    THEN [operation |-> null, ops |-> ops]
    ELSE [operation |-> ops[token], ops |-> ops]

\* consumeToken without the expiry check
consumeTokenNoExpiry(ops, token, t) ==
    IF token \notin DOMAIN ops
    THEN [operation |-> null, ops |-> ops]
    ELSE [operation |-> ops[token], ops |-> [k \in DOMAIN ops \ {token} |-> ops[k]]]

\* consumeToken that checks the expiry before it deletes: an expired entry stays
consumeTokenKeepExpired(ops, token, t) ==
    IF token \notin DOMAIN ops \/ isExpired(ops[token], t)
    THEN [operation |-> null, ops |-> ops]
    ELSE [operation |-> ops[token], ops |-> [k \in DOMAIN ops \ {token} |-> ops[k]]]

\* consumeToken(token): the returned operation (or null) and the store afterwards
consumeToken(ops, token, t) ==
    IF token \notin DOMAIN ops
    THEN [operation |-> null, ops |-> ops]
    ELSE LET operation == ops[token]
             rest == [k \in DOMAIN ops \ {token} |-> ops[k]]
         IN  IF isExpired(operation, t)
             THEN [operation |-> null, ops |-> rest]
             ELSE [operation |-> operation, ops |-> rest]

\* a lookup that does not look at the expiry
getTokenNoExpiry(ops, token, t) ==
    IF token \notin DOMAIN ops THEN null ELSE ops[token]

\* getToken(token): lookup without removal
getToken(ops, token, t) ==
    IF token \notin DOMAIN ops \/ isExpired(ops[token], t)
    THEN null
    ELSE ops[token]

\* clearAllTokens()
clearAllTokens(ops) == [k \in {} |-> null]


EmptyStore == [k \in {} |-> null]

-----------------------------------------------------------------------------
(* State after construction, and the clock *)

Slots == {"p1", "p2"}                    \* tool calls that can be in flight together
idle == [pc |-> "idle"]
nothing == [tool |-> "none", fn |-> "none"]

Init ==
    /\ now = 0
    /\ config \in [tokenExpiryMins : ExpiryMinsValues]
    /\ pendingOperations = EmptyStore
    /\ serial = 0
    /\ issued = {}
    /\ obtained = {}
    /\ raced = FALSE
    /\ captured = <<>>
    /\ slot = [p \in Slots |-> idle]
    /\ nStarted = 0
    /\ mutations = <<>>
    /\ last = nothing
    /\ hist = <<nothing, nothing>>

\* time passes: by a millisecond or by a minute
Tick ==
    /\ now % (60 * 1000) < MaxTicks
    /\ now' = now + 1
    /\ UNCHANGED <<captured, config, pendingOperations, serial, issued, obtained, raced,
                   slot, nStarted, mutations, last, hist>>

\* a minute passes between two calls
TickMinute ==
    /\ now \div (60 * 1000) < MaxMinutes
    /\ now' = now + 60 * 1000
    /\ UNCHANGED <<captured, config, pendingOperations, serial, issued, obtained, raced,
                   slot, nStarted, mutations, last, hist>>

-----------------------------------------------------------------------------
(* TokenSpec: the token API called directly, as the unit tests do *)

\* the (type, data) pairs passed to createToken directly
DirectOps ==
    { [type |-> "create_card", data |-> [content |-> "test"]],
      [type |-> "update_card", data |-> [cardId |-> "123"]],
      [type |-> "batch_update_card", data |-> [updates |-> <<>>]],
      [type |-> "batch_tag_update", data |-> [updates |-> <<>>]] }

\* tokens a caller can name: the generated ids and one that never is
NamedTokens == TokenIds \cup {"nonexistent-token"}

\* hist is the window <<call before last, last call>>
remember(h, e) == <<h[2], e>>

TokCreate ==
    /\ \E token \in TokenIds, o \in DirectOps, expiryMins \in ExpiryMinsValues :
          /\ pendingOperations' =
                createToken(pendingOperations, token, o.type, o.data, expiryMins, now, 0)
          /\ hist' = remember(hist, [fn |-> "createToken", token |-> token, type |-> o.type,
                                     data |-> o.data, expiryMins |-> expiryMins, at |-> now])
          /\ issued' = issued \cup {token}
    /\ UNCHANGED <<captured, now, config, serial, obtained, raced, slot, nStarted, mutations, last>>

TokConsume ==
    /\ \E token \in NamedTokens :
          LET r == consumeToken(pendingOperations, token, now)
          IN  /\ pendingOperations' = r.ops
              /\ hist' = remember(hist, [fn |-> "consumeToken", token |-> token,
                                         at |-> now, ret |-> r.operation])
    /\ UNCHANGED <<captured, now, config, serial, issued, obtained, raced,
                   slot, nStarted, mutations, last>>

TokClear ==
    /\ pendingOperations' = clearAllTokens(pendingOperations)
    /\ hist' = remember(hist, [fn |-> "clearAllTokens"])
    /\ UNCHANGED <<captured, now, config, serial, issued, obtained, raced,
                   slot, nStarted, mutations, last>>

TokenInit == Init /\ config.tokenExpiryMins = 1

TokenNext == Tick \/ TickMinute \/ TokCreate \/ TokConsume \/ TokClear

TokenSpec == TokenInit /\ [][TokenNext]_vars

\* getToken(token) called directly: it reads the store and writes nothing
TokGet ==
    /\ \E token \in NamedTokens :
          hist' = remember(hist, [fn |-> "getToken", token |-> token, at |-> now,
                                  ret |-> getToken(pendingOperations, token, now)])
    /\ UNCHANGED <<captured, now, config, pendingOperations, serial, issued, obtained,
                   raced, slot, nStarted, mutations, last>>

\* PeekSpec: the token API with its inspection call
PeekNext == TokenNext \/ TokGet

PeekSpec == TokenInit /\ [][PeekNext]_vars


-----------------------------------------------------------------------------
(* Values the tools handle *)

none == [def |-> FALSE]                  \* an optional argument left undefined
some(v) == [def |-> TRUE, val |-> v]

DeckIds == {"D1"}
CardIds == {"C1", "C2"}
DeckNames == { <<"M","y"," ","D","e","c","k">> }

tagx == <<"x">>
tagX == <<"X">>
tagy == <<"y">>

-----------------------------------------------------------------------------
(* Diff engine: src/src/utils/diff.ts *)

max(a, b) == IF a >= b THEN a ELSE b

\* a loop body that pushes the added line before the removed one
diffAtAddedFirst(originalLines, proposedLines, i) ==
    LET hasOrig == i <= Len(originalLines)
        hasProp == i <= Len(proposedLines)
    IN  IF hasOrig /\ hasProp /\ originalLines[i] = proposedLines[i]
        THEN << <<" ", originalLines[i]>> >>
        ELSE (IF hasProp THEN << <<"+", proposedLines[i]>> >> ELSE <<>>)
             \o (IF hasOrig THEN << <<"-", originalLines[i]>> >> ELSE <<>>)

\* a loop body that never emits context
diffAtNeverContext(originalLines, proposedLines, i) ==
    (IF i <= Len(originalLines) THEN << <<"-", originalLines[i]>> >> ELSE <<>>)
    \o (IF i <= Len(proposedLines) THEN << <<"+", proposedLines[i]>> >> ELSE <<>>)

\* the entries the loop body pushes for index i (1-based)
diffAt(originalLines, proposedLines, i) ==
    LET hasOrig == i <= Len(originalLines)
        hasProp == i <= Len(proposedLines)
    IN  IF hasOrig /\ hasProp /\ originalLines[i] = proposedLines[i]
        THEN << <<" ", originalLines[i]>> >>
        ELSE (IF hasOrig THEN << <<"-", originalLines[i]>> >> ELSE <<>>)
             \o (IF hasProp THEN << <<"+", proposedLines[i]>> >> ELSE <<>>)

RECURSIVE diffFrom(_, _, _)
diffFrom(originalLines, proposedLines, i) ==
    IF i > max(Len(originalLines), Len(proposedLines))
    THEN <<>>
    ELSE diffAt(originalLines, proposedLines, i)
         \o diffFrom(originalLines, proposedLines, i + 1)

\* a variant that compares only the lines both texts have
generateDiffCommon(original, proposed) ==
    [original |-> original,
     proposed |-> proposed,
     diff |-> diffFrom(original, proposed, 1),
     hasChanges |-> \E i \in 1..Len(original) :
                       i <= Len(proposed) /\ original[i] # proposed[i]]

\* generateDiff(original, proposed); a text is the sequence of its lines
generateDiff(original, proposed) ==
    [original |-> original,
     proposed |-> proposed,
     diff |-> diffFrom(original, proposed, 1),
     hasChanges |-> \E i \in 1..max(Len(original), Len(proposed)) :
                       ~(/\ i <= Len(original)
                         /\ i <= Len(proposed)
                         /\ original[i] = proposed[i])]

\* text.split('\n'): the lines of a text, cur being the line read so far
RECURSIVE splitFrom(_, _, _)
splitFrom(text, i, cur) ==
    IF i > Len(text)
    THEN <<cur>>
    ELSE IF text[i] = "\n"
         THEN <<cur>> \o splitFrom(text, i + 1, <<>>)
         ELSE splitFrom(text, i + 1, Append(cur, text[i]))

split(text) == splitFrom(text, 1, <<>>)

-----------------------------------------------------------------------------
(* Markdown fields: parseCardContent / buildCardContent *)

\* String.prototype.trim on a text whose lines carry no blanks of their own:
\* the blank lines at both ends go, and the empty string is one empty line
trimText(lines) ==
    LET keep == {i \in DOMAIN lines : lines[i] # ""}
    IN  IF keep = {} THEN <<"">>
        ELSE LET lo == CHOOSE i \in keep : \A j \in keep : i <= j
                 hi == CHOOSE i \in keep : \A j \in keep : j <= i
             IN  SubSeq(lines, lo, hi)

\* the first match of /\n---\n/ at or after line i: a "---" line that is
\* neither the first nor the last line; 0 when there is none
RECURSIVE separatorFrom(_, _)
separatorFrom(lines, i) ==
    IF i >= Len(lines) THEN 0
    ELSE IF i > 1 /\ lines[i] = "---" THEN i
    ELSE separatorFrom(lines, i + 1)

\* parseCardContent(content): parts[0] and parts[1] of the split, trimmed
parseCardContent(content) ==
    LET s1 == separatorFrom(content, 2)
        \* the match consumed the newline after line s1, so the next one
        \* cannot start before line s1 + 2
        s2 == IF s1 = 0 THEN 0 ELSE separatorFrom(content, s1 + 2)
    IN  IF s1 = 0
        THEN [question |-> trimText(content), answer |-> <<"">>]
        ELSE [question |-> trimText(SubSeq(content, 1, s1 - 1)),
              answer |-> trimText(SubSeq(content, s1 + 1,
                                         IF s2 = 0 THEN Len(content) ELSE s2 - 1))]

\* a build that leaves the separator out
buildCardContentNoSeparator(question, answer) ==
    trimText(question) \o trimText(answer)

\* buildCardContent(question, answer): `${q}\n\n---\n\n${a}`
buildCardContent(question, answer) ==
    trimText(question) \o <<"", "---", "">> \o trimText(answer)

-----------------------------------------------------------------------------
(* The external API as the handlers see it: src/src/mochi-client.ts *)

\* what POST /cards/ answers to createCard(deckId, content, tags)
createCardResponses(deckId, content, tags) ==
    { [id |-> "newcard", content |-> content, deckId |-> d] : d \in {deckId, "D2"} }

\* what POST /cards/:id answers to updateCard(cardId, {content, tags})
updateCardResponse(cardId, content) ==
    [id |-> cardId, content |-> content]

\* a body that always carries a tag list, empty when none was given
updateCardBodyAlwaysTags(updates) ==
    [k \in {"manual-tags"} \cup (IF updates.content.def THEN {"content"} ELSE {}) |->
        IF k = "content" THEN updates.content.val
        ELSE IF updates.tags.def THEN updates.tags.val ELSE <<>>]

\* the body updateCard(cardId, updates) posts: a field for each of content and
\* tags that is not undefined (the handlers never pass deckId)
updateCardBody(updates) ==
    [k \in (IF updates.content.def THEN {"content"} ELSE {})
             \cup (IF updates.tags.def THEN {"manual-tags"} ELSE {}) |->
        IF k = "content" THEN updates.content.val ELSE updates.tags.val]

-----------------------------------------------------------------------------
(* Tool calls: frames and results *)

PreviewTools == {"create_card_preview", "update_card_preview", "update_card_fields_preview",
                 "update_cards_batch_preview", "add_tags_preview", "remove_tags_preview"}
ApplyTools == {"apply_create_card", "apply_update_card", "apply_update_cards_batch",
               "apply_tags_update"}

\* what the named token was when an apply looked it up (ghost)
tokenState(token) ==
    IF token \in DOMAIN pendingOperations
    THEN (IF isExpired(pendingOperations[token], now) THEN "expired" ELSE "live")
    ELSE (IF token \in issued THEN "consumed" ELSE "never")

\* the record left in `last` when a call returns or throws
\* (operation, found: what consumeToken gave an apply; reads: the outcomes of
\* the reads a preview made; all three are ghosts)
returned(tool, args, result, operation, found, reads) ==
    [tool |-> tool, fn |-> "none", args |-> args, threw |-> FALSE, result |-> result,
     operation |-> operation, found |-> found, reads |-> reads]

thrown(tool, args, operation, found, reads) ==
    [tool |-> tool, fn |-> "none", args |-> args, threw |-> TRUE,
     result |-> [error |-> "Mochi API error"],
     operation |-> operation, found |-> found, reads |-> reads]

\* a preview's record: it consumed nothing
previewReturned(tool, args, result, reads) ==
    returned(tool, args, result, null, "n/a", reads)

previewThrown(tool, args, reads) == thrown(tool, args, null, "n/a", reads)

\* `Date.now() + config.tokenExpiryMins * 60 * 1000`, shown as expiresAt
expiresAtShown == now + config.tokenExpiryMins * 60 * 1000

\* args.confirmation.toLowerCase().trim() === phrase
confirmationNoLowerCase(confirmation, phrase) == trim(confirmation) = phrase

confirmationMatches(confirmation, phrase) == trim(toLowerCase(confirmation)) = phrase

\* a preview's final step that also writes to the external API
issueTokenAndWrite(p, token, type, data, rec, started) ==
    /\ pendingOperations' =
          createToken(pendingOperations, token, type, data, config.tokenExpiryMins,
                      now, serial + 1)
    /\ serial' = serial + 1
    /\ issued' = issued \cup {token}
    /\ last' = rec
    /\ slot' = [slot EXCEPT ![p] = idle]
    /\ nStarted' = started
    /\ captured' = Append(captured, [tool |-> rec.tool, args |-> rec.args,
                                     result |-> rec.result])
    /\ mutations' = Append(mutations, [fn |-> "updateCard", tool |-> rec.tool,
                                       sn |-> serial + 1, item |-> 1])
    /\ UNCHANGED <<now, config, obtained, raced, hist>>

\* a preview's final step: createToken with a drawn id, then return `result(token)`
issueToken(p, token, type, data, rec, started) ==
    /\ pendingOperations' =
          createToken(pendingOperations, token, type, data, config.tokenExpiryMins,
                      now, serial + 1)
    /\ serial' = serial + 1
    /\ issued' = issued \cup {token}
    /\ last' = rec
    /\ slot' = [slot EXCEPT ![p] = idle]
    /\ nStarted' = started
    /\ captured' = Append(captured, [tool |-> rec.tool, args |-> rec.args,
                                     result |-> rec.result])
    /\ UNCHANGED <<now, config, obtained, raced, mutations, hist>>

\* a preview starts: the frame waits for its first read
startPreview(p, frame) ==
    /\ slot[p] = idle
    /\ nStarted < MaxPreviews
    /\ nStarted' = nStarted + 1
    /\ slot' = [slot EXCEPT ![p] = frame]
    /\ UNCHANGED <<captured, now, config, pendingOperations, serial, issued, obtained, raced,
                   mutations, last, hist>>

\* a call that empties the store as it ends
endCallClearing(p, rec) ==
    /\ slot' = [slot EXCEPT ![p] = idle]
    /\ last' = rec
    /\ pendingOperations' = EmptyStore
    /\ UNCHANGED <<captured, now, config, serial, issued, obtained, raced,
                   nStarted, mutations, hist>>

\* a call ends without touching the store
endCall(p, rec) ==
    /\ slot' = [slot EXCEPT ![p] = idle]
    /\ last' = rec
    /\ UNCHANGED <<captured, now, config, pendingOperations, serial, issued, obtained, raced,
                   nStarted, mutations, hist>>

-----------------------------------------------------------------------------
(* Card creation, two-phase: write.ts handleCreateCardPreview / handleApplyCreateCard *)

CreateArgs ==
    { [deckId |-> "D1", content |-> <<"Q", "---", "A">>, tags |-> none],
      [deckId |-> "D1", content |-> <<"new">>, tags |-> some(<<tagx>>)] }

nonEmpty(block) == Len(block) > 0

\* the line of three backquotes that opens and closes a code block
fence == <<"(code fence)">>

\* the preview text: the blocks joined by '\n' after .filter(Boolean)
createPreviewText(deck, args) ==
    SelectSeq(<< <<"**Creating new card in deck:** ", deck.name, " (", args.deckId, ")">>,
                 <<>>,
                 <<"**Content:**">>,
                 fence,
                 IF args.content = <<"">> THEN <<>> ELSE args.content,
                 fence,
                 IF args.tags.def /\ Len(args.tags.val) > 0
                 THEN <<"\n**Tags:** ", args.tags.val>>
                 ELSE <<>> >>,
              nonEmpty)

handleCreateCardPreview(p) ==
    \E args \in CreateArgs :
        startPreview(p, [pc |-> "getDeck", tool |-> "create_card_preview", args |-> args])

\* after `await client.getDeck(args.deckId)`
handleCreateCardPreview_getDeck(p) ==
    /\ slot[p] # idle
    /\ slot[p].tool = "create_card_preview"
    /\ LET args == slot[p].args
       IN  \/ endCall(p, previewThrown("create_card_preview", args, <<"failed">>))
           \/ \E name \in DeckNames, token \in TokenIds :
                 LET deck == [id |-> args.deckId, name |-> name]
                     result == [preview |-> createPreviewText(deck, args),
                                token |-> token,
                                expiresAt |-> expiresAtShown,
                                message |-> "Review the card above. To create it, user must type: \"confirm create\""]
                 IN  issueToken(p, token, "create_card",
                                [deckId |-> args.deckId, content |-> args.content,
                                 tags |-> args.tags],
                                previewReturned("create_card_preview", args, result, <<"ok">>),
                                nStarted)

\* tokens a caller can present and what it types
ApplyArgs == [token : TokenIds, confirmation : Confirmations]

\* an apply that raises a fault where it should return its rejection
returnAtOnceAsFault(p, tool, args, r, found, result) ==
    /\ pendingOperations' = r.ops
    /\ last' = thrown(tool, args, r.operation, found, <<>>)
    /\ obtained' = IF r.operation = null THEN obtained ELSE obtained \cup {r.operation.sn}
    /\ raced' = (raced \/ (r.operation # null /\ r.operation.sn \in obtained))
    /\ UNCHANGED <<captured, now, config, serial, issued, slot, nStarted, mutations, hist>>

\* an apply that returns before any await
returnAtOnce(p, tool, args, r, found, result) ==
    /\ pendingOperations' = r.ops
    /\ last' = returned(tool, args, result, r.operation, found, <<>>)
    /\ obtained' = IF r.operation = null THEN obtained ELSE obtained \cup {r.operation.sn}
    /\ raced' = (raced \/ (r.operation # null /\ r.operation.sn \in obtained))
    /\ UNCHANGED <<captured, now, config, serial, issued, slot, nStarted, mutations, hist>>

\* an apply that sends the requests of all its updates before it waits
proceedApplyAllAtOnce(p, frame, r, request) ==
    /\ pendingOperations' = r.ops
    /\ obtained' = obtained \cup {r.operation.sn}
    /\ raced' = (raced \/ r.operation.sn \in obtained)
    /\ slot' = [slot EXCEPT ![p] = frame]
    /\ mutations' =
          IF "i" \in DOMAIN frame
          THEN mutations \o [k \in 1..Len(frame.operation.data.updates) |->
                                [request EXCEPT !.item = k]]
          ELSE Append(mutations, request)
    /\ UNCHANGED <<captured, now, config, serial, issued, nStarted, last, hist>>

\* an apply that goes on to its (first) external call
proceedApply(p, frame, r, request) ==
    /\ pendingOperations' = r.ops
    /\ obtained' = obtained \cup {r.operation.sn}
    /\ raced' = (raced \/ r.operation.sn \in obtained)
    /\ slot' = [slot EXCEPT ![p] = frame]
    /\ mutations' = Append(mutations, request)
    /\ UNCHANGED <<captured, now, config, serial, issued, nStarted, last, hist>>

handleApplyCreateCard(p) ==
    /\ slot[p] = idle
    /\ \E args \in ApplyArgs :
          LET tool == "apply_create_card"
              found == tokenState(args.token)
              r == consumeToken(pendingOperations, args.token, now)
              operation == r.operation
          IN  IF operation = null
              THEN returnAtOnce(p, tool, args, r, found,
                      [success |-> FALSE,
                       error |-> "Invalid or expired token. Please call create_card_preview again."])
              ELSE IF operation.type # "create_card"
              THEN returnAtOnce(p, tool, args, r, found,
                      [success |-> FALSE, error |-> "Token is not for card creation."])
              ELSE IF ~confirmationMatches(args.confirmation, ConfirmCreate)
              THEN returnAtOnce(p, tool, args, r, found,
                      [success |-> FALSE,
                       error |-> "Invalid confirmation. User must type exactly: \"confirm create\""])
              ELSE proceedApply(p,
                      [pc |-> "createCard", tool |-> tool, args |-> args,
                       operation |-> operation, found |-> found],
                      r,
                      [fn |-> "createCard", tool |-> tool, sn |-> operation.sn, item |-> 1,
                       deckId |-> operation.data.deckId,
                       content |-> operation.data.content,
                       tags |-> operation.data.tags])

\* after `await client.createCard(data.deckId, data.content, data.tags)`
handleApplyCreateCard_createCard(p) ==
    /\ slot[p] # idle
    /\ slot[p].tool = "apply_create_card"
    /\ LET f == slot[p]
           data == f.operation.data
       IN  \/ endCall(p, thrown(f.tool, f.args, f.operation, f.found, <<"failed">>))
           \/ \E card \in createCardResponses(data.deckId, data.content, data.tags) :
                 endCall(p, returned(f.tool, f.args,
                                     [success |-> TRUE,
                                      card |-> [id |-> card.id, content |-> card.content,
                                                deckId |-> card.deckId]],
                                     f.operation, f.found, <<"ok">>))

-----------------------------------------------------------------------------
(* Card update, two-phase: write.ts handleUpdateCardPreview,
   handleUpdateCardFieldsPreview, handleApplyUpdateCard *)

UpdateArgs ==
    { [cardId |-> "C1", content |-> <<"new">>, tags |-> none],
      [cardId |-> "C1", content |-> <<"old">>, tags |-> none],
      [cardId |-> "C2", content |-> <<"old", "more">>, tags |-> some(<<tagx>>)] }

UpdateFieldsArgs ==
    { [cardId |-> "C1", question |-> some(<<"Q2">>), answer |-> none, tags |-> none],
      [cardId |-> "C1", question |-> none, answer |-> none, tags |-> none],
      [cardId |-> "C2", question |-> none, answer |-> some(<<"A2">>),
       tags |-> some(<<tagx>>)],
      [cardId |-> "C2", question |-> none, answer |-> some(<<"", "A", "">>),
       tags |-> some(<<tagx>>)] }

\* what GET /cards/:id can answer
ServerCards(cardId) ==
    { [id |-> cardId, content |-> <<"old">>, tags |-> none],
      [id |-> cardId, content |-> <<"Q", "", "---", "", "A">>, tags |-> some(<<tagx, tagy>>)] }

handleUpdateCardPreview(p) ==
    \E args \in UpdateArgs :
        startPreview(p, [pc |-> "getCard", tool |-> "update_card_preview", args |-> args])

\* an update preview that hands out a token only when the diff found changes
handleUpdateCardPreview_getCardOnlyIfChanged(p) ==
    /\ slot[p] # idle
    /\ slot[p].tool = "update_card_preview"
    /\ LET args == slot[p].args
       IN  \E card \in ServerCards(args.cardId), token \in TokenIds :
              LET diffResult == generateDiff(card.content, args.content)
                  result == [original |-> diffResult.original,
                             proposed |-> diffResult.proposed,
                             diff |-> diffResult.diff,
                             hasChanges |-> diffResult.hasChanges,
                             token |-> token,
                             expiresAt |-> expiresAtShown,
                             message |-> "No changes detected between original and proposed content."]
                  rec == previewReturned("update_card_preview", args, result, <<"ok">>)
              IN  IF diffResult.hasChanges
                  THEN issueToken(p, token, "update_card",
                                  [cardId |-> args.cardId, content |-> args.content,
                                   tags |-> args.tags], rec, nStarted)
                  ELSE endCall(p, rec)

\* after `await client.getCard(args.cardId)`
handleUpdateCardPreview_getCard(p) ==
    /\ slot[p] # idle
    /\ slot[p].tool = "update_card_preview"
    /\ LET args == slot[p].args
       IN  \/ endCall(p, previewThrown("update_card_preview", args, <<"failed">>))
           \/ \E card \in ServerCards(args.cardId), token \in TokenIds :
                 LET diffResult == generateDiff(card.content, args.content)
                     result == [original |-> diffResult.original,
                                proposed |-> diffResult.proposed,
                                diff |-> diffResult.diff,
                                hasChanges |-> diffResult.hasChanges,
                                token |-> token,
                                expiresAt |-> expiresAtShown,
                                message |-> IF diffResult.hasChanges
                                            THEN "Review the changes above. To apply, user must type: \"confirm update\""
                                            ELSE "No changes detected between original and proposed content."]
                 IN  issueToken(p, token, "update_card",
                                [cardId |-> args.cardId, content |-> args.content,
                                 tags |-> args.tags],
                                previewReturned("update_card_preview", args, result, <<"ok">>),
                                nStarted)

handleUpdateCardFieldsPreview(p) ==
    \E args \in UpdateFieldsArgs :
        startPreview(p, [pc |-> "getCard", tool |-> "update_card_fields_preview",
                         args |-> args])

\* after `await client.getCard(args.cardId)`
handleUpdateCardFieldsPreview_getCard(p) ==
    /\ slot[p] # idle
    /\ slot[p].tool = "update_card_fields_preview"
    /\ LET args == slot[p].args
       IN  \/ endCall(p, previewThrown("update_card_fields_preview", args, <<"failed">>))
           \/ \E card \in ServerCards(args.cardId), token \in TokenIds :
                 LET current == parseCardContent(card.content)
                     newQuestion == IF args.question.def THEN args.question.val
                                    ELSE current.question
                     newAnswer == IF args.answer.def THEN args.answer.val
                                  ELSE current.answer
                     newContent == buildCardContent(newQuestion, newAnswer)
                     diffResult == generateDiff(card.content, newContent)
                     changed == diffResult.hasChanges \/ args.tags.def
                     result == [original |-> diffResult.original,
                                proposed |-> diffResult.proposed,
                                diff |-> diffResult.diff,
                                hasChanges |-> changed,
                                token |-> token,
                                expiresAt |-> expiresAtShown,
                                message |-> IF changed
                                            THEN "Review the changes above. To apply, user must type: \"confirm update\""
                                            ELSE "No changes detected between original and proposed content."]
                 IN  issueToken(p, token, "update_card",
                                [cardId |-> args.cardId, content |-> newContent,
                                 tags |-> args.tags],
                                previewReturned("update_card_fields_preview", args, result,
                                                <<"ok">>),
                                nStarted)

handleApplyUpdateCard(p) ==
    /\ slot[p] = idle
    /\ \E args \in ApplyArgs :
          LET tool == "apply_update_card"
              found == tokenState(args.token)
              r == consumeToken(pendingOperations, args.token, now)
              operation == r.operation
          IN  IF operation = null
              THEN returnAtOnce(p, tool, args, r, found,
                      [success |-> FALSE,
                       error |-> "Invalid or expired token. Please call update_card_preview again."])
              ELSE IF operation.type # "update_card"
              THEN returnAtOnce(p, tool, args, r, found,
                      [success |-> FALSE, error |-> "Token is not for card update."])
              ELSE IF ~confirmationMatches(args.confirmation, ConfirmUpdate)
              THEN returnAtOnce(p, tool, args, r, found,
                      [success |-> FALSE,
                       error |-> "Invalid confirmation. User must type exactly: \"confirm update\""])
              ELSE proceedApply(p,
                      [pc |-> "updateCard", tool |-> tool, args |-> args,
                       operation |-> operation, found |-> found],
                      r,
                      [fn |-> "updateCard", tool |-> tool, sn |-> operation.sn, item |-> 1,
                       cardId |-> operation.data.cardId,
                       updates |-> [content |-> some(operation.data.content),
                                    tags |-> operation.data.tags]])

\* after `await client.updateCard(data.cardId, {content, tags})`
handleApplyUpdateCard_updateCard(p) ==
    /\ slot[p] # idle
    /\ slot[p].tool = "apply_update_card"
    /\ LET f == slot[p]
           card == updateCardResponse(f.operation.data.cardId, f.operation.data.content)
       IN  \/ endCall(p, thrown(f.tool, f.args, f.operation, f.found, <<"failed">>))
           \/ endCall(p, returned(f.tool, f.args,
                                  [success |-> TRUE,
                                   card |-> [id |-> card.id, content |-> card.content]],
                                  f.operation, f.found, <<"ok">>))

-----------------------------------------------------------------------------
(* Batch update, two-phase: write.ts handleUpdateCardsBatchPreview,
   handleApplyUpdateCardsBatch *)

BatchArgs ==
    { [updates |-> <<>>],
      [updates |-> << [cardId |-> "C1", content |-> <<"new">>, tags |-> none],
                      [cardId |-> "C2", content |-> <<"old">>, tags |-> some(<<tagx>>)] >>] }

\* one entry of `previews`
batchPreviewEntry(update, card) ==
    LET d == generateDiff(card.content, update.content)
    IN  << "### Card ", update.cardId,
           IF d.hasChanges THEN "" ELSE " (No Content Changes)",
           d.diff,
           IF update.tags.def THEN <<"**New Tags:** ", update.tags.val>> ELSE <<>> >>

batchPreviewResult(args, previews, token) ==
    [preview |-> previews,
     token |-> token,
     expiresAt |-> expiresAtShown,
     message |-> <<"Review the ", Len(args.updates),
                   " updates above. To apply ALL, user must type: \"confirm batch update\"">>]

\* String(error) of a failed client call
errorText == "Error: Mochi API error"

\* the call starts; with no update to read it runs to its return at once
handleUpdateCardsBatchPreview(p) ==
    /\ slot[p] = idle
    /\ nStarted < MaxPreviews
    /\ \E args \in BatchArgs :
          IF Len(args.updates) = 0
          THEN \E token \in TokenIds :
                  issueToken(p, token, "batch_update_card", [updates |-> args.updates],
                             previewReturned("update_cards_batch_preview", args,
                                             batchPreviewResult(args, <<>>, token), <<>>),
                             nStarted + 1)
          ELSE startPreview(p, [pc |-> "getCard", tool |-> "update_cards_batch_preview",
                                args |-> args, i |-> 1, previews |-> <<>>, reads |-> <<>>])

\* a batch preview that swallows a failed read and returns its token all the same
handleUpdateCardsBatchPreview_getCardLenient(p) ==
    /\ slot[p] # idle
    /\ slot[p].tool = "update_cards_batch_preview"
    /\ LET f == slot[p]
       IN  \E token \in TokenIds :
              issueToken(p, token, "batch_update_card", [updates |-> f.args.updates],
                         previewReturned(f.tool, f.args,
                                         batchPreviewResult(f.args, f.previews, token),
                                         Append(f.reads, "failed")),
                         nStarted)

\* after `await client.getCard(update.cardId)` for update number i
handleUpdateCardsBatchPreview_getCard(p) ==
    /\ slot[p] # idle
    /\ slot[p].tool = "update_cards_batch_preview"
    /\ LET f == slot[p]
           args == f.args
           update == args.updates[f.i]
       IN  \/ endCall(p, previewThrown(f.tool, args, Append(f.reads, "failed")))
           \/ \E card \in ServerCards(update.cardId) :
                 LET previews == Append(f.previews, batchPreviewEntry(update, card))
                     reads == Append(f.reads, "ok")
                 IN  IF f.i < Len(args.updates)
                     THEN /\ slot' = [slot EXCEPT ![p] =
                                         [f EXCEPT !.i = f.i + 1, !.previews = previews,
                                                   !.reads = reads]]
                          /\ UNCHANGED <<captured, now, config, pendingOperations, serial, issued,
                                         obtained, raced, nStarted, mutations, last, hist>>
                     ELSE \E token \in TokenIds :
                             issueToken(p, token, "batch_update_card",
                                        [updates |-> args.updates],
                                        previewReturned(f.tool, args,
                                            batchPreviewResult(args, previews, token), reads),
                                        nStarted)

\* results.filter(r => r.success).length
RECURSIVE successCount(_)
successCount(results) ==
    IF results = <<>> THEN 0
    ELSE (IF results[1].success THEN 1 ELSE 0) + successCount(Tail(results))

\* a result that calls the batch a success as soon as one update went through
loopResultAnySuccess(results, label) ==
    LET ok == successCount(results)
        failCount == Len(results) - ok
    IN  [success |-> ok > 0,
         results |-> results,
         summary |-> <<label, " Success: ", ok, ", Failed: ", failCount>>]

\* what the loop over data.updates returns in the end
loopResult(results, label) ==
    LET ok == successCount(results)
        failCount == Len(results) - ok
    IN  [success |-> failCount = 0,
         results |-> results,
         summary |-> <<label, " Success: ", ok, ", Failed: ", failCount>>]

\* a batch apply that walks the list from its end
batchRequestReversed(tool, operation, i) ==
    LET update == operation.data.updates[Len(operation.data.updates) + 1 - i]
    IN  [fn |-> "updateCard", tool |-> tool, sn |-> operation.sn, item |-> i,
         cardId |-> update.cardId,
         updates |-> [content |-> some(update.content), tags |-> update.tags]]

\* the request of update number i of a batch_update_card operation
batchRequest(tool, operation, i) ==
    LET update == operation.data.updates[i]
    IN  [fn |-> "updateCard", tool |-> tool, sn |-> operation.sn, item |-> i,
         cardId |-> update.cardId,
         updates |-> [content |-> some(update.content), tags |-> update.tags]]

\* the request of update number i of a batch_tag_update operation
tagsRequest(tool, operation, i) ==
    LET update == operation.data.updates[i]
    IN  [fn |-> "updateCard", tool |-> tool, sn |-> operation.sn, item |-> i,
         cardId |-> update.cardId,
         updates |-> [content |-> none, tags |-> some(update.tags)]]

\* the request of update number i, as the endpoint's loop builds it
requestOf(tool, operation, i) ==
    IF tool = "apply_update_cards_batch"
    THEN batchRequest(tool, operation, i)
    ELSE tagsRequest(tool, operation, i)

\* the loop that gives up at the first update that fails
loopStepStopAtFailure(p, tool, label) ==
    /\ slot[p] # idle
    /\ slot[p].tool = tool
    /\ LET f == slot[p]
           update == f.operation.data.updates[f.i]
       IN  \E ok \in BOOLEAN :
              LET results ==
                      Append(f.results,
                             IF ok THEN [cardId |-> update.cardId, success |-> TRUE]
                             ELSE [cardId |-> update.cardId, success |-> FALSE,
                                   error |-> errorText])
                  replies == Append(f.replies, IF ok THEN "ok" ELSE "failed")
              IN  IF ok /\ f.i < Len(f.operation.data.updates)
                  THEN /\ slot' = [slot EXCEPT ![p] =
                                      [f EXCEPT !.i = f.i + 1, !.results = results,
                                                !.replies = replies]]
                       /\ mutations' = Append(mutations, requestOf(tool, f.operation, f.i + 1))
                       /\ UNCHANGED <<captured, now, config, pendingOperations, serial, issued,
                                      obtained, raced, nStarted, last, hist>>
                  ELSE endCall(p, returned(tool, f.args, loopResult(results, label),
                                           f.operation, f.found, replies))

\* a loop without the try/catch: a failed update ends the call with a fault
loopStepPropagating(p, tool, label) ==
    /\ slot[p] # idle
    /\ slot[p].tool = tool
    /\ LET f == slot[p]
           update == f.operation.data.updates[f.i]
           results == Append(f.results, [cardId |-> update.cardId, success |-> TRUE])
           replies == Append(f.replies, "ok")
       IN  \/ endCall(p, thrown(tool, f.args, f.operation, f.found,
                                Append(f.replies, "failed")))
           \/ IF f.i < Len(f.operation.data.updates)
              THEN /\ slot' = [slot EXCEPT ![p] =
                                  [f EXCEPT !.i = f.i + 1, !.results = results,
                                            !.replies = replies]]
                   /\ mutations' = Append(mutations, requestOf(tool, f.operation, f.i + 1))
                   /\ UNCHANGED <<captured, now, config, pendingOperations, serial, issued,
                                  obtained, raced, nStarted, last, hist>>
              ELSE endCall(p, returned(tool, f.args, loopResult(results, label),
                                       f.operation, f.found, replies))

\* after `await client.updateCard(...)` for update number i, inside try/catch
\* (replies: ghost, how each external call ended)
loopStep(p, tool, label) ==
    /\ slot[p] # idle
    /\ slot[p].tool = tool
    /\ LET f == slot[p]
           update == f.operation.data.updates[f.i]
       IN  \E ok \in BOOLEAN :
              LET results ==
                      Append(f.results,
                             IF ok THEN [cardId |-> update.cardId, success |-> TRUE]
                             ELSE [cardId |-> update.cardId, success |-> FALSE,
                                   error |-> errorText])
                  replies == Append(f.replies, IF ok THEN "ok" ELSE "failed")
              IN  IF f.i < Len(f.operation.data.updates)
                  THEN /\ slot' = [slot EXCEPT ![p] =
                                      [f EXCEPT !.i = f.i + 1, !.results = results,
                                                !.replies = replies]]
                       /\ mutations' = Append(mutations, requestOf(tool, f.operation, f.i + 1))
                       /\ UNCHANGED <<captured, now, config, pendingOperations, serial, issued,
                                      obtained, raced, nStarted, last, hist>>
                  ELSE endCall(p, returned(tool, f.args, loopResult(results, label),
                                           f.operation, f.found, replies))

handleApplyUpdateCardsBatch(p) ==
    /\ slot[p] = idle
    /\ \E args \in ApplyArgs :
          LET tool == "apply_update_cards_batch"
              found == tokenState(args.token)
              r == consumeToken(pendingOperations, args.token, now)
              operation == r.operation
          IN  IF operation = null \/ operation.type # "batch_update_card"
              THEN returnAtOnce(p, tool, args, r, found,
                      [success |-> FALSE, results |-> <<>>,
                       summary |-> "Invalid or expired token."])
              ELSE IF ~confirmationMatches(args.confirmation, ConfirmBatchUpdate)
              THEN returnAtOnce(p, tool, args, r, found,
                      [success |-> FALSE, results |-> <<>>,
                       summary |-> "Invalid confirmation text."])
              ELSE IF Len(operation.data.updates) = 0
              THEN returnAtOnce(p, tool, args, r, found, loopResult(<<>>, "Batch complete."))
              ELSE proceedApply(p,
                      [pc |-> "updateCard", tool |-> tool, args |-> args,
                       operation |-> operation, found |-> found, i |-> 1,
                       results |-> <<>>, replies |-> <<>>],
                      r, requestOf(tool, operation, 1))

handleApplyUpdateCardsBatch_updateCard(p) ==
    loopStep(p, "apply_update_cards_batch", "Batch complete.")

-----------------------------------------------------------------------------
(* Tag changes, two-phase: read.ts handleAddTagsPreview, handleRemoveTagsPreview;
   write.ts handleApplyTagsUpdate *)

tagz == <<"z">>

AddTagsArgs ==
    { [cardIds |-> <<"C1", "C2">>, tagsToAdd |-> <<tagX, tagz>>],
      [cardIds |-> <<>>, tagsToAdd |-> <<tagx>>] }

RemoveTagsArgs ==
    { [cardIds |-> <<"C1">>, tagsToRemove |-> <<tagX>>] }

\* card.tags || []
tagsOf(card) == IF card.tags.def THEN card.tags.val ELSE <<>>

lowered(tags) == { toLowerCase(tags[k]) : k \in 1..Len(tags) }

\* tag-add that also rewrites the card's tags in lower case
addedTagsLowering(oldTags, tagsToAdd) ==
    LET tagSet == lowered(oldTags)
        isNew(t) == toLowerCase(t) \notin tagSet
    IN  [k \in 1..Len(oldTags) |-> toLowerCase(oldTags[k])] \o SelectSeq(tagsToAdd, isNew)

\* tag-add that compares the tags as they are spelled
addedTagsCaseSensitive(oldTags, tagsToAdd) ==
    LET tagSet == {oldTags[k] : k \in 1..Len(oldTags)}
        isNew(t) == t \notin tagSet
    IN  oldTags \o SelectSeq(tagsToAdd, isNew)

\* [...oldTags, ...args.tagsToAdd.filter(t => !tagSet.has(t.toLowerCase()))]
addedTags(oldTags, tagsToAdd) ==
    LET tagSet == lowered(oldTags)
        isNew(t) == toLowerCase(t) \notin tagSet
    IN  oldTags \o SelectSeq(tagsToAdd, isNew)

\* tag-remove that compares the tags as they are spelled
removedTagsCaseSensitive(oldTags, tagsToRemove) ==
    LET toRemove == {tagsToRemove[k] : k \in 1..Len(tagsToRemove)}
        kept(t) == t \notin toRemove
    IN  SelectSeq(oldTags, kept)

\* oldTags.filter(t => !tagsToRemoveLower.has(t.toLowerCase()))
removedTags(oldTags, tagsToRemove) ==
    LET tagsToRemoveLower == lowered(tagsToRemove)
        kept(t) == toLowerCase(t) \notin tagsToRemoveLower
    IN  SelectSeq(oldTags, kept)

\* the tags a tag preview proposes for a card
newTagsFor(tool, args, oldTags) ==
    IF tool = "add_tags_preview" THEN addedTags(oldTags, args.tagsToAdd)
    ELSE removedTags(oldTags, args.tagsToRemove)

tagsPreviewResult(updates, token) ==
    [preview |-> [k \in 1..Len(updates) |->
                     <<"Card ", updates[k].cardId, updates[k].oldTags, updates[k].newTags>>],
     token |-> token,
     updates |-> updates,
     hasChanges |-> \E k \in 1..Len(updates) :
                       Len(updates[k].newTags) # Len(updates[k].oldTags)]

\* a payload that leaves out the cards whose tags stay as they are
tagsPayloadChangedOnly(updates) ==
    LET changed(u) == u.newTags # u.oldTags
        kept == SelectSeq(updates, changed)
    IN  [updates |-> [k \in 1..Len(kept) |->
                         [cardId |-> kept[k].cardId, tags |-> kept[k].newTags]]]

\* updates.map(u => ({cardId: u.cardId, tags: u.newTags}))
tagsPayload(updates) ==
    [updates |-> [k \in 1..Len(updates) |->
                     [cardId |-> updates[k].cardId, tags |-> updates[k].newTags]]]

\* a tag preview starts; with no card to read it runs to its return at once
tagsPreview(p, tool, args) ==
    /\ slot[p] = idle
    /\ nStarted < MaxPreviews
    /\ IF Len(args.cardIds) = 0
       THEN \E token \in TokenIds :
               issueToken(p, token, "batch_tag_update", tagsPayload(<<>>),
                          previewReturned(tool, args, tagsPreviewResult(<<>>, token), <<>>),
                          nStarted + 1)
       ELSE startPreview(p, [pc |-> "getCard", tool |-> tool, args |-> args, i |-> 1,
                             updates |-> <<>>, reads |-> <<>>])

\* after `await client.getCard(cardId)` for card number i
tagsPreview_getCard(p, tool) ==
    /\ slot[p] # idle
    /\ slot[p].tool = tool
    /\ LET f == slot[p]
           args == f.args
           cardId == args.cardIds[f.i]
       IN  \/ endCall(p, previewThrown(tool, args, Append(f.reads, "failed")))
           \/ \E card \in ServerCards(cardId) :
                 LET oldTags == tagsOf(card)
                     updates == Append(f.updates,
                                       [cardId |-> cardId, oldTags |-> oldTags,
                                        newTags |-> newTagsFor(tool, args, oldTags)])
                     reads == Append(f.reads, "ok")
                 IN  IF f.i < Len(args.cardIds)
                     THEN /\ slot' = [slot EXCEPT ![p] =
                                         [f EXCEPT !.i = f.i + 1, !.updates = updates,
                                                   !.reads = reads]]
                          /\ UNCHANGED <<captured, now, config, pendingOperations, serial, issued,
                                         obtained, raced, nStarted, mutations, last, hist>>
                     ELSE \E token \in TokenIds :
                             issueToken(p, token, "batch_tag_update", tagsPayload(updates),
                                        previewReturned(tool, args,
                                            tagsPreviewResult(updates, token), reads),
                                        nStarted)

handleAddTagsPreview(p) ==
    \E args \in AddTagsArgs : tagsPreview(p, "add_tags_preview", args)

handleAddTagsPreview_getCard(p) == tagsPreview_getCard(p, "add_tags_preview")

handleRemoveTagsPreview(p) ==
    \E args \in RemoveTagsArgs : tagsPreview(p, "remove_tags_preview", args)

handleRemoveTagsPreview_getCard(p) == tagsPreview_getCard(p, "remove_tags_preview")

\* The tag computations on their own (TagSpec): one card, any tags on it, any
\* tags asked for.
Tags == {tagx, tagX, tagy, tagz}

TagLists == UNION {[1..n -> Tags] : n \in 0..MaxTags}

\* the tags field of a fetched card: absent, or a list
CardTags == {none} \cup {some(l) : l \in TagLists}

\* what a tag preview computes and returns for the one card it fetched
tagsComputed(tool, args, card) ==
    LET oldTags == tagsOf(card)
        updates == << [cardId |-> card.id, oldTags |-> oldTags,
                       newTags |-> newTagsFor(tool, args, oldTags)] >>
    IN  [tool |-> tool, fn |-> "none", args |-> args, card |-> card,
         result |-> tagsPreviewResult(updates, "t1"),
         payload |-> tagsPayload(updates)]

AddTagsToCard ==
    /\ \E tags \in CardTags, tagsToAdd \in TagLists :
          last' = tagsComputed("add_tags_preview",
                               [cardIds |-> <<"C1">>, tagsToAdd |-> tagsToAdd],
                               [id |-> "C1", tags |-> tags])
    /\ UNCHANGED <<now, config, pendingOperations, serial, issued, obtained, raced,
                   captured, slot, nStarted, mutations, hist>>

RemoveTagsFromCard ==
    /\ \E tags \in CardTags, tagsToRemove \in TagLists :
          last' = tagsComputed("remove_tags_preview",
                               [cardIds |-> <<"C1">>, tagsToRemove |-> tagsToRemove],
                               [id |-> "C1", tags |-> tags])
    /\ UNCHANGED <<now, config, pendingOperations, serial, issued, obtained, raced,
                   captured, slot, nStarted, mutations, hist>>

TagInit == Init /\ config.tokenExpiryMins = 1

TagNext == AddTagsToCard \/ RemoveTagsFromCard

TagSpec == TagInit /\ [][TagNext]_vars

handleApplyTagsUpdate(p) ==
    /\ slot[p] = idle
    /\ \E args \in ApplyArgs :
          LET tool == "apply_tags_update"
              found == tokenState(args.token)
              r == consumeToken(pendingOperations, args.token, now)
              operation == r.operation
          IN  IF operation = null \/ operation.type # "batch_tag_update"
              THEN returnAtOnce(p, tool, args, r, found,
                      [success |-> FALSE, results |-> <<>>,
                       summary |-> "Invalid or expired token. Please call add_tags_preview or remove_tags_preview again."])
              ELSE IF ~confirmationMatches(args.confirmation, ConfirmTags)
              THEN returnAtOnce(p, tool, args, r, found,
                      [success |-> FALSE, results |-> <<>>,
                       summary |-> "Invalid confirmation. User must type exactly: \"confirm tags\""])
              ELSE IF Len(operation.data.updates) = 0
              THEN returnAtOnce(p, tool, args, r, found,
                                loopResult(<<>>, "Tag update complete."))
              ELSE proceedApply(p,
                      [pc |-> "updateCard", tool |-> tool, args |-> args,
                       operation |-> operation, found |-> found, i |-> 1,
                       results |-> <<>>, replies |-> <<>>],
                      r, requestOf(tool, operation, 1))

handleApplyTagsUpdate_updateCard(p) ==
    loopStep(p, "apply_tags_update", "Tag update complete.")

-----------------------------------------------------------------------------
(* Typed-confirmation deletes and deck creation: write.ts handleDeleteCard,
   handleCreateDeck, handleDeleteDeck (DeleteSpec) *)

cardWord == <<"c","a","r","d">>
deckWord == <<"d","e","c","k">>

\* `delete ${type} ${expectedId}`
deletePhrase(type, expectedId) == <<"d","e","l","e","t","e"," ">> \o type \o <<" ">> \o expectedId

\* a validator that compares the confirmation as it was typed
validateDeleteConfirmationAsTyped(confirmation, expectedId, type) ==
    confirmation = deletePhrase(type, expectedId)

\* confirmation.toLowerCase().trim() === expected.toLowerCase()
validateDeleteConfirmation(confirmation, expectedId, type) ==
    trim(toLowerCase(confirmation)) = toLowerCase(deletePhrase(type, expectedId))

\* ids and names as the characters that go into the confirmation phrase
DeleteCardIds == { <<"C","1">> }
DeleteDeckIds == { <<"D","1">> }
\* a deck's name is free text: it may read like the deck's id, or end in a space
ServerDeckNames == { <<"M","y"," ","D","e","c","k">>, <<"d","1">>, <<"T","m","p"," ">> }

\* what a caller types for a delete
DeleteConfirmations ==
    { <<"d","e","l","e","t","e"," ","c","a","r","d"," ","C","1">>,
      <<" ","D","E","L","E","T","E"," ","C","A","R","D"," ","c","1"," ">>,
      <<"d","e","l","e","t","e"," ","c","a","r","d">>,
      <<"d","e","l","e","t","e"," ","d","e","c","k"," ","M","y"," ","D","e","c","k">>,
      <<"D","e","l","e","t","e"," ","D","e","c","k"," ","M","Y"," ","D","E","C","K","\n">>,
      <<"d","e","l","e","t","e"," ","d","e","c","k"," ","D","1">>,
      <<"d","e","l","e","t","e"," ","d","e","c","k"," ","T","m","p"," ">> }

\* the arguments as sent: permanent may be left out
DeleteCardInputs ==
    [cardId : DeleteCardIds, confirmation : DeleteConfirmations,
     permanent : {none, some(TRUE), some(FALSE)}]

\* permanent: z.boolean().optional().default(false)
DeleteCardSchema(input) ==
    [cardId |-> input.cardId, confirmation |-> input.confirmation,
     permanent |-> IF input.permanent = none THEN FALSE ELSE input.permanent.val]

DeleteDeckArgs == [deckId : DeleteDeckIds, confirmation : DeleteConfirmations]

CreateDeckArgs == { [name |-> <<"M","y"," ","D","e","c","k">>, parentId |-> none] }

\* a finished call of one of these tools, with the external calls it made
deleteReturned(tool, args, result, calls) ==
    [tool |-> tool, fn |-> "none", args |-> args, threw |-> FALSE, result |-> result,
     calls |-> calls]

deleteThrown(tool, args, calls) ==
    [tool |-> tool, fn |-> "none", args |-> args, threw |-> TRUE,
     result |-> [error |-> "Mochi API error"], calls |-> calls]

\* the record of a delete_card call, with the arguments as they were sent
withInput(rec, input) ==
    [tool |-> rec.tool, fn |-> rec.fn, args |-> rec.args, threw |-> rec.threw,
     result |-> rec.result, calls |-> rec.calls, input |-> input]

\* a call starts and goes on to an external call
startCall(p, frame) ==
    /\ nStarted' = nStarted + 1
    /\ slot' = [slot EXCEPT ![p] = frame]
    /\ UNCHANGED <<captured, now, config, pendingOperations, serial, issued, obtained, raced,
                   last, hist>>

\* a call starts and returns before any await
startAndReturn(p, rec) ==
    /\ nStarted' = nStarted + 1
    /\ last' = rec
    /\ UNCHANGED <<captured, now, config, pendingOperations, serial, issued, obtained, raced,
                   slot, mutations, hist>>

\* a delete that is always permanent
deleteCardRequestPermanent(args) ==
    [fn |-> "deleteCard", cardId |-> args.cardId, permanent |-> TRUE]

\* client.deleteCard(args.cardId, args.permanent)
deleteCardRequest(args) ==
    [fn |-> "deleteCard", cardId |-> args.cardId, permanent |-> args.permanent]

handleDeleteCard(p) ==
    /\ slot[p] = idle
    /\ nStarted < MaxDeletes
    /\ \E input \in DeleteCardInputs :
          LET tool == "delete_card"
              args == DeleteCardSchema(input)
          IN  IF ~validateDeleteConfirmation(args.confirmation, args.cardId, cardWord)
              THEN startAndReturn(p, withInput(deleteReturned(tool, args,
                      [success |-> FALSE,
                       message |-> <<"Invalid confirmation. Must be exactly: ",
                                     deletePhrase(cardWord, args.cardId)>>],
                      <<>>), input))
              ELSE /\ startCall(p, [pc |-> "deleteCard", tool |-> tool, args |-> args,
                                    input |-> input,
                                    calls |-> <<deleteCardRequest(args)>>])
                   /\ mutations' = Append(mutations, deleteCardRequest(args))

\* after `await client.deleteCard(args.cardId, args.permanent)`
handleDeleteCard_deleteCard(p) ==
    /\ slot[p] # idle
    /\ slot[p].tool = "delete_card"
    /\ LET f == slot[p]
       IN  \/ endCall(p, withInput(deleteThrown(f.tool, f.args, f.calls), f.input))
           \/ endCall(p, withInput(deleteReturned(f.tool, f.args,
                 [success |-> TRUE,
                  message |-> IF f.args.permanent
                              THEN <<"Card ", f.args.cardId, " permanently deleted.">>
                              ELSE <<"Card ", f.args.cardId,
                                     " moved to trash. Can be restored from Mochi app.">>],
                 f.calls), f.input))

handleCreateDeck(p) ==
    /\ slot[p] = idle
    /\ nStarted < MaxDeletes
    /\ \E args \in CreateDeckArgs :
          LET request == [fn |-> "createDeck", name |-> args.name,
                          parentId |-> args.parentId]
          IN  /\ startCall(p, [pc |-> "createDeck", tool |-> "create_deck", args |-> args,
                               calls |-> <<request>>])
              /\ mutations' = Append(mutations, request)

\* after `await client.createDeck(args.name, args.parentId)`
handleCreateDeck_createDeck(p) ==
    /\ slot[p] # idle
    /\ slot[p].tool = "create_deck"
    /\ LET f == slot[p]
       IN  \/ endCall(p, deleteThrown(f.tool, f.args, f.calls))
           \/ \E id \in DeleteDeckIds, name \in ServerDeckNames :
                 LET deck == [id |-> id, name |-> name]
                 IN  endCall(p, deleteReturned(f.tool, f.args,
                           [success |-> TRUE, deck |-> [id |-> deck.id, name |-> deck.name]],
                           f.calls))

\* a capability check that lets every call through
deckDeleteAlwaysEnabled(cfg) == TRUE

\* config.allowDeckDelete
deckDeleteEnabled(cfg) == cfg.allowDeckDelete

\* a deck delete that is permanent
deleteDeckRequestPermanent(f, deck) ==
    [fn |-> "deleteDeck", deckId |-> f.args.deckId, permanent |-> TRUE,
     confirmation |-> f.args.confirmation, deck |-> deck, after |-> f.calls]

\* client.deleteDeck(args.deckId, false), with the call it belongs to
deleteDeckRequest(f, deck) ==
    [fn |-> "deleteDeck", deckId |-> f.args.deckId, permanent |-> FALSE,
     confirmation |-> f.args.confirmation, deck |-> deck, after |-> f.calls]

\* a confirmation phrase built from the deck's id
expectedConfirmationById(args, deck) == deletePhrase(deckWord, args.deckId)

\* `delete deck ${deck.name}`
expectedConfirmationOf(args, deck) == deletePhrase(deckWord, deck.name)

handleDeleteDeck(p) ==
    /\ slot[p] = idle
    /\ nStarted < MaxDeletes
    /\ \E args \in DeleteDeckArgs :
          LET tool == "delete_deck"
          IN  IF ~deckDeleteEnabled(config)
              THEN startAndReturn(p, deleteReturned(tool, args,
                      [success |-> FALSE,
                       message |-> <<"Deck deletion is disabled. Set MOCHI_ALLOW_DECK_DELETE=true to enable.">>],
                      <<>>))
              ELSE /\ startCall(p, [pc |-> "getDeck", tool |-> tool, args |-> args,
                                    calls |-> <<[fn |-> "getDeck", deckId |-> args.deckId]>>])
                   /\ UNCHANGED mutations

\* after `await client.getDeck(args.deckId)`
handleDeleteDeck_getDeck(p) ==
    /\ slot[p] # idle
    /\ slot[p].tool = "delete_deck"
    /\ slot[p].pc = "getDeck"
    /\ LET f == slot[p]
       IN  \/ endCall(p, deleteThrown(f.tool, f.args, f.calls))
           \/ \E name \in ServerDeckNames :
                 LET deck == [id |-> f.args.deckId, name |-> name]
                     expectedConfirmation == expectedConfirmationOf(f.args, deck)
                 IN  IF trim(toLowerCase(f.args.confirmation)) # toLowerCase(expectedConfirmation)
                     THEN endCall(p, deleteReturned(f.tool, f.args,
                             [success |-> FALSE,
                              message |-> <<"Invalid confirmation. Must be exactly: ",
                                            expectedConfirmation>>],
                             f.calls))
                     ELSE /\ slot' = [slot EXCEPT ![p] =
                                        [pc |-> "deleteDeck", tool |-> f.tool,
                                         args |-> f.args, deck |-> deck,
                                         calls |-> Append(f.calls,
                                                          deleteDeckRequest(f, deck))]]
                          /\ mutations' = Append(mutations, deleteDeckRequest(f, deck))
                          /\ UNCHANGED <<captured, now, config, pendingOperations, serial,
                                         issued, obtained, raced, nStarted, last, hist>>

\* after `await client.deleteDeck(args.deckId, false)`
handleDeleteDeck_deleteDeck(p) ==
    /\ slot[p] # idle
    /\ slot[p].tool = "delete_deck"
    /\ slot[p].pc = "deleteDeck"
    /\ LET f == slot[p]
       IN  \/ endCall(p, deleteThrown(f.tool, f.args, f.calls))
           \/ endCall(p, deleteReturned(f.tool, f.args,
                 [success |-> TRUE,
                  message |-> <<"Deck ", f.deck.name,
                                " moved to trash. Cards inside are preserved but hidden.">>],
                 f.calls))

\* loadConfig: allowDeckDelete is true only when MOCHI_ALLOW_DECK_DELETE is 'true'
DeleteInit ==
    /\ now = 0
    /\ config \in [tokenExpiryMins : {1}, allowDeckDelete : BOOLEAN]
    /\ pendingOperations = EmptyStore
    /\ serial = 0
    /\ issued = {}
    /\ obtained = {}
    /\ raced = FALSE
    /\ captured = <<>>
    /\ slot = [p \in Slots |-> idle]
    /\ nStarted = 0
    /\ mutations = <<>>
    /\ last = nothing
    /\ hist = <<nothing, nothing>>

DeleteNext ==
    \E p \in Slots :
       \/ handleDeleteCard(p)
       \/ handleDeleteCard_deleteCard(p)
       \/ handleCreateDeck(p)
       \/ handleCreateDeck_createDeck(p)
       \/ handleDeleteDeck(p)
       \/ handleDeleteDeck_getDeck(p)
       \/ handleDeleteDeck_deleteDeck(p)

DeleteSpec == DeleteInit /\ [][DeleteNext]_vars

-----------------------------------------------------------------------------
(* The confirmation validator on its own (ValidatorSpec):
   mochi-client.ts validateDeleteConfirmation *)

ValidatorConfirmations ==
    { <<"D","e","l","e","t","e"," ","C","a","r","d"," ","A","B","C">>,
      <<"r","e","m","o","v","e"," ","c","a","r","d"," ","a","b","c">>,
      <<"d","e","l","e","t","e"," ","c","a","r","d"," ","a","b","c">>,
      <<" ","d","e","l","e","t","e"," ","c","a","r","d"," ","a","b","c"," ">>,
      <<"d","e","l","e","t","e"," ","c","a","r","d"," ","a","b","c"," ">>,
      <<"d","e","l","e","t","e"," ","c","a","r","d"," ","a","b">>,
      <<"d","e","l","e","t","e"," ","c","a","r","d"," ","a","b","c","d">>,
      <<"d","e","l","e","t","e"," ","d","e","c","k"," ","a","b","c">>,
      <<"D","E","L","E","T","E"," ","D","E","C","K"," ","A","B","C","\n">>,
      <<"d","e","l","e","t","e"," ","c","a","r","d">>,
      <<"d","e","l","e","t","e"," "," ","c","a","r","d"," ","a","b","c">>,
      <<>> }

\* ids and names are free strings: some carry white space at an end
ValidatorIds == { <<"a","b","c">>, <<"A","B","C">>, <<"a","b","c"," ">>, <<" ","a","b","c">>, <<"a","b">> }

ValidatorTypes == {cardWord, deckWord}

Validate ==
    /\ \E confirmation \in ValidatorConfirmations, expectedId \in ValidatorIds,
          type \in ValidatorTypes :
          last' = [tool |-> "none", fn |-> "validateDeleteConfirmation",
                   args |-> [confirmation |-> confirmation, expectedId |-> expectedId,
                             type |-> type],
                   result |-> validateDeleteConfirmation(confirmation, expectedId, type)]
    /\ UNCHANGED <<now, config, pendingOperations, serial, issued, obtained, raced,
                   captured, slot, nStarted, mutations, hist>>

ValidatorInit == Init /\ config.tokenExpiryMins = 1

ValidatorNext == Validate

ValidatorSpec == ValidatorInit /\ [][ValidatorNext]_vars

-----------------------------------------------------------------------------
(* The diff engine on its own (DiffSpec): generateDiff applied to any two
   texts of up to MaxTextLen characters *)

TextChars == {"a", "b", "\n"}

Texts == UNION { [1..k -> TextChars] : k \in 0..MaxTextLen }

Diff ==
    /\ \E original \in Texts, proposed \in Texts :
          last' = [tool |-> "none", fn |-> "generateDiff",
                   args |-> [original |-> original, proposed |-> proposed],
                   result |-> generateDiff(split(original), split(proposed))]
    /\ UNCHANGED <<now, config, pendingOperations, serial, issued, obtained, raced,
                   captured, slot, nStarted, mutations, hist>>

DiffInit == Init /\ config.tokenExpiryMins = 1

\* the lines a caller puts on top of a text
InsertedLines == { <<>>, <<"a">>, <<"b">> }

\* generateDiff(original, line + '\n' + original)
DiffInsertTop ==
    /\ \E original \in Texts, line \in InsertedLines :
          LET proposed == line \o <<"\n">> \o original
          IN  last' = [tool |-> "none", fn |-> "generateDiff",
                       args |-> [original |-> original, proposed |-> proposed],
                       result |-> generateDiff(split(original), split(proposed))]
    /\ UNCHANGED <<now, config, pendingOperations, serial, issued, obtained, raced,
                   captured, slot, nStarted, mutations, hist>>

DiffNext == Diff \/ DiffInsertTop

DiffSpec == DiffInit /\ [][DiffNext]_vars

-----------------------------------------------------------------------------
(* Paginated scans (ScanSpec): mochi-client.ts listDecks, listCards;
   read tools handleListDecks, handleSearchCards.
   Cards and decks are counted, not listed: the caps and the flags of a scan
   depend on how many items came back and when, not on what is in them; the
   searches modelled carry no filter and no listed item is trashed or
   archived. *)

TIMEOUT_MS == 45000
PAGINATION_DELAY_MS == 1500
ApiPageSize == 100
UnscopedFetchLimit == 1000
ScopedFetchLimit == 5000
ListCardsSafetyLimit == 5000
ListDecksSafetyLimit == 1000
DefaultSearchLimit == 20

\* how long one request takes, in ms
RequestDurations == {0, 25000}

\* how many items one page brings
PageDocs == {0, 50, 100}

\* the cursor that comes with a page
Bookmarks == {none, some("b1"), some("b2")}

min(a, b) == IF a < b THEN a ELSE b

SearchArgs ==
    { [deckId |-> none, limit |-> DefaultSearchLimit],
      [deckId |-> some("D1"), limit |-> DefaultSearchLimit] }

ListDecksArgs == { [includeArchived |-> FALSE] }

\* a finished scan (timedOut, fetched, pages: ghosts of the loop)
scanReturned(f, result, timedOut, fetched) ==
    [tool |-> f.tool, fn |-> "none", args |-> f.args, threw |-> FALSE, result |-> result,
     timedOut |-> timedOut, fetched |-> fetched, pages |-> f.pages + 1]

scanThrown(f, error, timedOut, fetched) ==
    [tool |-> f.tool, fn |-> "none", args |-> f.args, threw |-> TRUE,
     result |-> [error |-> error],
     timedOut |-> timedOut, fetched |-> fetched, pages |-> f.pages + 1]

startScan(p, frame) ==
    /\ slot[p] = idle
    /\ nStarted < MaxScans
    /\ nStarted' = nStarted + 1
    /\ slot' = [slot EXCEPT ![p] = frame]
    /\ UNCHANGED <<captured, now, config, pendingOperations, serial, issued, obtained, raced,
                   mutations, last, hist>>

\* the loop goes on to its next request, at time t
nextPage(p, f, all, bookmark, t) ==
    /\ slot' = [slot EXCEPT ![p] = [f EXCEPT !.all = all, !.bookmark = bookmark,
                                             !.isFirstRequest = FALSE,
                                             !.pages = f.pages + 1]]
    /\ now' = t
    /\ UNCHANGED <<captured, config, pendingOperations, serial, issued, obtained, raced,
                   nStarted, mutations, last, hist>>

\* the call ends at time t
endScan(p, rec, t) ==
    /\ slot' = [slot EXCEPT ![p] = idle]
    /\ last' = rec
    /\ now' = t
    /\ UNCHANGED <<captured, config, pendingOperations, serial, issued, obtained, raced,
                   nStarted, mutations, hist>>

\* when the answer to the request of this iteration is there
arrival(f, d) == now + (IF f.isFirstRequest THEN 0 ELSE PAGINATION_DELAY_MS) + d

\* a loop body without the test for a cursor that repeats
loopBodyIgnoringRepeat(f, n, b, t, limit) ==
    IF n = 0 THEN [exit |-> "break", all |-> f.all]
    ELSE IF t - f.startTime > TIMEOUT_MS THEN [exit |-> "timeout", all |-> f.all + n]
    ELSE IF b # none /\ f.all + n < limit THEN [exit |-> "continue", all |-> f.all + n]
    ELSE [exit |-> "end", all |-> f.all + n]

\* one pass through the body of the do-while of listCards / listDecks, for a
\* page of n items with cursor b that arrived at time t; the loop goes on
\* while there is a cursor and fewer than `limit` items
loopBody(f, n, b, t, limit) ==
    IF n = 0 THEN [exit |-> "break", all |-> f.all]
    ELSE IF b = f.bookmark THEN [exit |-> "break", all |-> f.all + n]
    ELSE IF t - f.startTime > TIMEOUT_MS THEN [exit |-> "timeout", all |-> f.all + n]
    ELSE IF b # none /\ f.all + n < limit THEN [exit |-> "continue", all |-> f.all + n]
    ELSE [exit |-> "end", all |-> f.all + n]

\* a listCards that hands back all it fetched
listCardsWhole(allCards, targetLimit) == allCards

\* allCards.slice(0, targetLimit)
listCardsSlice(allCards, targetLimit) == min(allCards, targetLimit)

\* the result of handleSearchCards for a scan of allCards cards
searchResult(args, fetchLimit, allCards, partial) ==
    LET scannedCount == allCards
        totalFound == allCards
    IN  [cards |-> min(totalFound, args.limit),
         totalFound |-> totalFound,
         scannedCount |-> scannedCount,
         truncated |-> (scannedCount >= fetchLimit),
         partial |-> partial]

handleSearchCards(p) ==
    \E args \in SearchArgs :
       LET fetchLimit == IF args.deckId # none THEN ScopedFetchLimit ELSE UnscopedFetchLimit
       IN  startScan(p, [pc |-> "listCards", tool |-> "search_cards", args |-> args,
                         targetLimit |-> fetchLimit,
                         pageSize |-> min(fetchLimit, ApiPageSize),
                         all |-> 0, bookmark |-> none, isFirstRequest |-> TRUE,
                         startTime |-> now, pages |-> 0])

\* after `await this.request(url)` inside client.listCards(args.deckId, fetchLimit)
handleSearchCards_listCards(p) ==
    /\ slot[p] # idle
    /\ slot[p].tool = "search_cards"
    /\ LET f == slot[p] IN
       \E d \in RequestDurations :
          LET t == arrival(f, d) IN
          \/ endScan(p, scanThrown(f, "Mochi API error", FALSE, f.all), t)
          \/ \E n \in {m \in PageDocs : m <= f.pageSize}, b \in Bookmarks :
                LET step == loopBody(f, n, b, t,
                                     min(f.targetLimit, ListCardsSafetyLimit))
                IN  CASE step.exit = "continue" -> nextPage(p, f, step.all, b, t)
                      [] step.exit = "timeout" ->
                            endScan(p, scanReturned(f,
                                        searchResult(f.args, f.targetLimit, 0, TRUE),
                                        TRUE, step.all), t)
                      [] OTHER ->
                            endScan(p, scanReturned(f,
                                        searchResult(f.args, f.targetLimit,
                                                     listCardsSlice(step.all, f.targetLimit),
                                                     FALSE),
                                        FALSE, step.all), t)

handleListDecks(p) ==
    \E args \in ListDecksArgs :
       startScan(p, [pc |-> "listDecks", tool |-> "list_decks", args |-> args,
                     all |-> 0, bookmark |-> none, isFirstRequest |-> TRUE,
                     startTime |-> now, pages |-> 0])

\* after `await this.request(url)` inside client.listDecks()
handleListDecks_listDecks(p) ==
    /\ slot[p] # idle
    /\ slot[p].tool = "list_decks"
    /\ LET f == slot[p] IN
       \E d \in RequestDurations :
          LET t == arrival(f, d) IN
          \/ endScan(p, scanThrown(f, "Mochi API error", FALSE, f.all), t)
          \/ \E n \in PageDocs, b \in Bookmarks :
                LET step == loopBody(f, n, b, t, ListDecksSafetyLimit)
                IN  CASE step.exit = "continue" -> nextPage(p, f, step.all, b, t)
                      [] step.exit = "timeout" ->
                            endScan(p, scanThrown(f, "MochiTimeoutError", TRUE, step.all), t)
                      [] OTHER ->
                            endScan(p, scanReturned(f, [decks |-> step.all],
                                                    FALSE, step.all), t)

ScanInit == Init /\ config.tokenExpiryMins = 1

ScanNext ==
    \E p \in Slots :
       \/ handleSearchCards(p)
       \/ handleSearchCards_listCards(p)
       \/ handleListDecks(p)
       \/ handleListDecks_listDecks(p)

ScanSpec == ScanInit /\ [][ScanNext]_vars

\* every request of a scan in progress is answered, by a page or by a failure
ScanFairness ==
    \A p \in Slots :
        /\ WF_vars(handleSearchCards_listCards(p))
        /\ WF_vars(handleListDecks_listDecks(p))

ScanFairSpec == ScanSpec /\ ScanFairness

-----------------------------------------------------------------------------
(* The server: tool calls arrive in any order and interleave at their awaits *)

Next ==
    \/ Tick
    \/ \E p \in Slots :
          \/ handleCreateCardPreview(p)
          \/ handleCreateCardPreview_getDeck(p)
          \/ handleApplyCreateCard(p)
          \/ handleApplyCreateCard_createCard(p)
          \/ handleUpdateCardPreview(p)
          \/ handleUpdateCardPreview_getCard(p)
          \/ handleUpdateCardFieldsPreview(p)
          \/ handleUpdateCardFieldsPreview_getCard(p)
          \/ handleApplyUpdateCard(p)
          \/ handleApplyUpdateCard_updateCard(p)
          \/ handleUpdateCardsBatchPreview(p)
          \/ handleUpdateCardsBatchPreview_getCard(p)
          \/ handleApplyUpdateCardsBatch(p)
          \/ handleApplyUpdateCardsBatch_updateCard(p)
          \/ handleAddTagsPreview(p)
          \/ handleAddTagsPreview_getCard(p)
          \/ handleRemoveTagsPreview(p)
          \/ handleRemoveTagsPreview_getCard(p)
          \/ handleApplyTagsUpdate(p)
          \/ handleApplyTagsUpdate_updateCard(p)

Spec == Init /\ [][Next]_vars

\* The two-phase tools together with delete_deck, on a server started without
\* MOCHI_ALLOW_DECK_DELETE and with tokens that expire at the next tick.
CoordinatorInit ==
    /\ now = 0
    /\ config \in [tokenExpiryMins : {0}, allowDeckDelete : {FALSE}]
    /\ pendingOperations = EmptyStore
    /\ serial = 0
    /\ issued = {}
    /\ obtained = {}
    /\ raced = FALSE
    /\ captured = <<>>
    /\ slot = [p \in Slots |-> idle]
    /\ nStarted = 0
    /\ mutations = <<>>
    /\ last = nothing
    /\ hist = <<nothing, nothing>>

CoordinatorNext ==
    \/ Next
    \/ \E p \in Slots : handleDeleteDeck(p)

CoordinatorSpec == CoordinatorInit /\ [][CoordinatorNext]_vars

-----------------------------------------------------------------------------
(* Multi-get: src/unnamed/part_000 handleGetCards, and SerialSpec, the
   tools that work through a list of cards *)

GetCardsArgs == { [cardIds |-> <<>>], [cardIds |-> <<"C1", "C2">>] }

\* one entry of `cards`
getCardsEntry(card) ==
    LET parsed == parseCardContent(card.content)
    IN  [id |-> card.id, content |-> card.content, question |-> parsed.question,
         answer |-> parsed.answer, tags |-> tagsOf(card)]

\* the call starts; with no id to read it returns at once
handleGetCards(p) ==
    /\ slot[p] = idle
    /\ \E args \in GetCardsArgs :
          IF Len(args.cardIds) = 0
          THEN endCall(p, returned("get_cards", args, [cards |-> <<>>], null, "n/a", <<>>))
          ELSE /\ slot' = [slot EXCEPT ![p] =
                              [pc |-> "getCard", tool |-> "get_cards", args |-> args,
                               i |-> 1, cards |-> <<>>, reads |-> <<>>]]
               /\ UNCHANGED <<captured, now, config, pendingOperations, serial, issued,
                              obtained, raced, nStarted, mutations, last, hist>>

\* after `await client.getCard(id)` for id number i; a failure is rethrown
handleGetCards_getCard(p) ==
    /\ slot[p] # idle
    /\ slot[p].tool = "get_cards"
    /\ LET f == slot[p]
           id == f.args.cardIds[f.i]
       IN  \/ endCall(p, thrown("get_cards", f.args, null, "n/a", Append(f.reads, "failed")))
           \/ \E card \in ServerCards(id) :
                 LET cards == Append(f.cards, getCardsEntry(card))
                     reads == Append(f.reads, "ok")
                 IN  IF f.i < Len(f.args.cardIds)
                     THEN /\ slot' = [slot EXCEPT ![p] =
                                         [f EXCEPT !.i = f.i + 1, !.cards = cards,
                                                   !.reads = reads]]
                          /\ UNCHANGED <<captured, now, config, pendingOperations, serial,
                                         issued, obtained, raced, nStarted, mutations, last,
                                         hist>>
                     ELSE endCall(p, returned("get_cards", f.args, [cards |-> cards],
                                              null, "n/a", reads))

SerialInit == Init /\ config.tokenExpiryMins = 1

\* the tools that work through a list of cards
SerialNext ==
    \E p \in Slots :
        \/ handleUpdateCardsBatchPreview(p)
        \/ handleUpdateCardsBatchPreview_getCard(p)
        \/ handleApplyUpdateCardsBatch(p)
        \/ handleApplyUpdateCardsBatch_updateCard(p)
        \/ handleAddTagsPreview(p)
        \/ handleAddTagsPreview_getCard(p)
        \/ handleRemoveTagsPreview(p)
        \/ handleRemoveTagsPreview_getCard(p)
        \/ handleApplyTagsUpdate(p)
        \/ handleApplyTagsUpdate_updateCard(p)
        \/ handleGetCards(p)
        \/ handleGetCards_getCard(p)

SerialSpec == SerialInit /\ [][SerialNext]_vars

-----------------------------------------------------------------------------
(* StoreSpec: everything that reaches the token store, next to tools that
   have no business with it. Card creation stands for the two-phase tools
   and runs in one slot; delete_card, create_deck, delete_deck and get_cards
   run in the other, between and during its calls; clearAllTokens is called
   directly; a token expires at the tick after its preview. *)

StoreInit ==
    /\ now = 0
    /\ config \in [tokenExpiryMins : {0}, allowDeckDelete : BOOLEAN]
    /\ pendingOperations = EmptyStore
    /\ serial = 0
    /\ issued = {}
    /\ obtained = {}
    /\ raced = FALSE
    /\ captured = <<>>
    /\ slot = [p \in Slots |-> idle]
    /\ nStarted = 0
    /\ mutations = <<>>
    /\ last = nothing
    /\ hist = <<nothing, nothing>>

StoreNext ==
    \/ Tick
    \/ TokClear
    \/ \E p \in {"p1"} :
          \/ handleCreateCardPreview(p)
          \/ handleCreateCardPreview_getDeck(p)
          \/ handleApplyCreateCard(p)
          \/ handleApplyCreateCard_createCard(p)
    \/ \E p \in {"p2"} :
          \/ handleDeleteCard(p)
          \/ handleDeleteCard_deleteCard(p)
          \/ handleCreateDeck(p)
          \/ handleCreateDeck_createDeck(p)
          \/ handleDeleteDeck(p)
          \/ handleDeleteDeck_getDeck(p)
          \/ handleDeleteDeck_deleteDeck(p)
          \/ handleGetCards(p)
          \/ handleGetCards_getCard(p)

StoreSpec == StoreInit /\ [][StoreNext]_vars

-----------------------------------------------------------------------------
(* Claims on the token store (TokenSpec) *)

\* hist holds createToken(token, ...) directly followed by consumeToken(token)
IssueThenConsume ==
    /\ hist[1].fn = "createToken"
    /\ hist[2].fn = "consumeToken"
    /\ hist[2].token = hist[1].token

\* hist holds two consumeToken calls in a row on the same token
ConsumeTwice ==
    /\ hist[1].fn = "consumeToken"
    /\ hist[2].fn = "consumeToken"
    /\ hist[2].token = hist[1].token

\* C1: for every kind, payload and positive ttl, a consume right after the
\* issue, before expiry, returns an operation with exactly the issued kind
\* and payload, and a second consume of the same token returns null.
C1_ConsumeReturnsIssued ==
    /\ (/\ IssueThenConsume
        /\ hist[1].expiryMins > 0
        /\ hist[2].at <= hist[1].at + hist[1].expiryMins * 60000)
          => /\ hist[2].ret # null
             /\ hist[2].ret.type = hist[1].type
             /\ hist[2].ret.data = hist[1].data
    /\ ConsumeTwice => hist[2].ret = null

\* a first consume returned the operation and the second consume returned null
C1_Witness ==
    /\ ConsumeTwice
    /\ hist[1].ret # null
    /\ hist[1].ret.type = "update_card"
    /\ hist[2].ret = null

\* C2 as stated: a token issued with ttl <= 0, or consumed after more than
\* ttl has elapsed since issue, is NotFound even on the first consume.
C2_Original ==
    (/\ IssueThenConsume
     /\ \/ hist[1].expiryMins <= 0
        \/ hist[2].at - hist[1].at > hist[1].expiryMins * 60000)
       => hist[2].ret = null

\* C2 amended: a token issued with ttl < 0, or consumed after more than ttl
\* has elapsed since issue, is NotFound even on the first consume; a token
\* issued with ttl = 0 is still returned by a consume in the same millisecond
\* (the expiry test is the strict now > expiresAt).
C2_ExpiredIsNotFound ==
    /\ (/\ IssueThenConsume
        /\ \/ hist[1].expiryMins < 0
           \/ hist[2].at - hist[1].at > hist[1].expiryMins * 60000)
          => hist[2].ret = null
    /\ (/\ IssueThenConsume
        /\ hist[1].expiryMins = 0
        /\ hist[2].at = hist[1].at)
          => /\ hist[2].ret # null
             /\ hist[2].ret.type = hist[1].type
             /\ hist[2].ret.data = hist[1].data

\* a token with a positive ttl was consumed first after its ttl had elapsed
C2_Witness ==
    /\ IssueThenConsume
    /\ hist[1].expiryMins = 1
    /\ hist[2].at = hist[1].at + 60001
    /\ hist[2].ret = null

-----------------------------------------------------------------------------
(* Claims on the two-phase tools (Spec) *)

\* the kind of operation an apply endpoint accepts
kindOf(tool) ==
    CASE tool = "apply_create_card" -> {"create_card"}
      [] tool = "apply_update_card" -> {"update_card"}
      [] tool = "apply_update_cards_batch" -> {"batch_update_card"}
      [] tool = "apply_tags_update" -> {"batch_tag_update"}

\* the phrase an apply endpoint asks for
phraseOf(tool) ==
    CASE tool = "apply_create_card" -> ConfirmCreate
      [] tool = "apply_update_card" -> ConfirmUpdate
      [] tool = "apply_update_cards_batch" -> ConfirmBatchUpdate
      [] tool = "apply_tags_update" -> ConfirmTags

\* what an apply endpoint answers to a token that is invalid or expired
invalidTokenResult(tool) ==
    CASE tool = "apply_create_card" ->
            [success |-> FALSE,
             error |-> "Invalid or expired token. Please call create_card_preview again."]
      [] tool = "apply_update_card" ->
            [success |-> FALSE,
             error |-> "Invalid or expired token. Please call update_card_preview again."]
      [] tool = "apply_update_cards_batch" ->
            [success |-> FALSE, results |-> <<>>, summary |-> "Invalid or expired token."]
      [] tool = "apply_tags_update" ->
            [success |-> FALSE, results |-> <<>>,
             summary |-> "Invalid or expired token. Please call add_tags_preview or remove_tags_preview again."]

\* what an apply endpoint answers to a confirmation that is not its phrase
confirmationRejection(tool) ==
    CASE tool = "apply_create_card" ->
            [success |-> FALSE,
             error |-> "Invalid confirmation. User must type exactly: \"confirm create\""]
      [] tool = "apply_update_card" ->
            [success |-> FALSE,
             error |-> "Invalid confirmation. User must type exactly: \"confirm update\""]
      [] tool = "apply_update_cards_batch" ->
            [success |-> FALSE, results |-> <<>>, summary |-> "Invalid confirmation text."]
      [] tool = "apply_tags_update" ->
            [success |-> FALSE, results |-> <<>>,
             summary |-> "Invalid confirmation. User must type exactly: \"confirm tags\""]

\* the call in slot p is an apply (a preview) waiting at an await
applyFrame(p) == slot[p] # idle /\ slot[p].tool \in ApplyTools
previewFrame(p) == slot[p] # idle /\ slot[p].tool \in PreviewTools

\* the most recently finished call was an apply
lastIsApply == last.tool \in ApplyTools

\* this step is an apply call naming `token` that returned before any await
appliedAtOnce(token) ==
    /\ slot' = slot
    /\ last' # last
    /\ last'.tool \in ApplyTools
    /\ last'.args.token = token

\* this step is an apply call naming `token` that went on to its first external call
appliedAndProceeded(token) ==
    \E p \in Slots :
        /\ slot[p] = idle
        /\ slot'[p] # idle
        /\ slot'[p].tool \in ApplyTools
        /\ slot'[p].args.token = token

\* the external calls made on behalf of the operation with serial sn
callsFor(sn) == {k \in 1..Len(mutations) : mutations[k].sn = sn}

\* how many external calls an operation stands for
itemsOf(operation) ==
    IF operation.type \in {"batch_update_card", "batch_tag_update"}
    THEN Len(operation.data.updates)
    ELSE 1

\* what a step that is an apply call, or that adds a token, does to the store
C3_Step ==
    /\ \A token \in TokenIds :
          (appliedAtOnce(token) \/ appliedAndProceeded(token)) =>
              /\ token \notin DOMAIN pendingOperations'
              /\ (token \notin DOMAIN pendingOperations) =>
                    /\ appliedAtOnce(token)
                    /\ last'.result = invalidTokenResult(last'.tool)
                    /\ last'.result.success = FALSE
                    /\ mutations' = mutations
    /\ \A token \in DOMAIN pendingOperations' \ DOMAIN pendingOperations :
          /\ last'.tool \in PreviewTools
          /\ ~last'.threw
          /\ last'.result.token = token

\* C3: a token is terminal after one apply. Whatever apply endpoint is called with
\* a stored token, and whatever the outcome (right phrase, wrong phrase, wrong
\* kind, expired), the token is gone from the store when the call has taken it;
\* an apply naming a token that is not in the store returns at once the
\* endpoint's invalid-or-expired result with success=false and calls nothing;
\* and only a preview that returns a token puts an entry into the store.
C3_TokenTerminal == [][C3_Step]_vars

\* a live token was burnt by an apply that changed nothing, and the next apply
\* naming it was turned away
C3_Witness ==
    /\ lastIsApply
    /\ last.found = "consumed"
    /\ last.result = invalidTokenResult(last.tool)
    /\ mutations = <<>>
    /\ config.tokenExpiryMins = 1
    /\ now = 0

\* C4: given a live token of the endpoint's kind, an apply performs the external
\* mutation if and only if the confirmation, lower-cased and trimmed, equals the
\* endpoint's phrase; on any other text it returns the endpoint's confirmation
\* rejection (success=false) and no external call is ever made for that
\* operation, not even for one item of a batch.
C4_ConfirmationGate ==
    /\ (/\ lastIsApply
        /\ last.found = "live"
        /\ last.operation # null
        /\ last.operation.type \in kindOf(last.tool)) =>
           IF trim(toLowerCase(last.args.confirmation)) = phraseOf(last.tool)
           THEN /\ last.threw \/ last.result # confirmationRejection(last.tool)
                /\ Cardinality(callsFor(last.operation.sn)) = itemsOf(last.operation)
           ELSE /\ ~last.threw
                /\ last.result = confirmationRejection(last.tool)
                /\ last.result.success = FALSE
                /\ callsFor(last.operation.sn) = {}
    /\ \A p \in Slots :
          applyFrame(p) =>
              /\ slot[p].found = "live"
              /\ slot[p].operation.type \in kindOf(slot[p].tool)
              /\ trim(toLowerCase(slot[p].args.confirmation)) = phraseOf(slot[p].tool)
              /\ callsFor(slot[p].operation.sn) # {}

\* apply_update_card accepted "Confirm Update" and the update went through
C4_Witness ==
    /\ last.tool = "apply_update_card"
    /\ last.args.confirmation = <<"C","o","n","f","i","r","m"," ","U","p","d","a","t","e">>
    /\ ~last.threw
    /\ last.result.success = TRUE
    /\ Len(mutations) = 1

\* C5: when several apply calls naming the same live token interleave at their
\* awaits, at most one of them obtains the pending operation: no operation is
\* handed out twice, no external call is made twice for the same item of the same
\* operation, and a caller that finds the token already taken gets no operation
\* and a result with success=false.
C5_AtMostOneWinner ==
    /\ ~raced
    /\ \A j, k \in 1..Len(mutations) :
          (mutations[j].sn = mutations[k].sn /\ mutations[j].item = mutations[k].item)
              => j = k
    /\ \A p, q \in Slots :
          (p # q /\ applyFrame(p) /\ applyFrame(q))
              => slot[p].operation.sn # slot[q].operation.sn
    /\ (lastIsApply /\ last.found = "consumed") =>
          /\ last.operation = null
          /\ ~last.threw
          /\ last.result.success = FALSE

\* one apply is still waiting for its external call while a second apply naming
\* the same token has already been turned away
C5_Witness ==
    \E p \in Slots :
        /\ applyFrame(p)
        /\ lastIsApply
        /\ last.args.token = slot[p].args.token
        /\ last.found = "consumed"
        /\ last.operation = null
        /\ serial = 1
        /\ obtained = {1}

\* the payload a preview call captured, read off its arguments and its result
capturedPayload(c) ==
    CASE c.tool = "create_card_preview" ->
            [deckId |-> c.args.deckId, content |-> c.args.content, tags |-> c.args.tags]
      [] c.tool \in {"update_card_preview", "update_card_fields_preview"} ->
            [cardId |-> c.args.cardId, content |-> c.result.proposed, tags |-> c.args.tags]
      [] c.tool = "update_cards_batch_preview" ->
            [updates |-> c.args.updates]
      [] c.tool \in {"add_tags_preview", "remove_tags_preview"} ->
            [updates |-> [k \in 1..Len(c.result.updates) |->
                             [cardId |-> c.result.updates[k].cardId,
                              tags |-> c.result.updates[k].newTags]]]

\* external call m carries what the preview behind its operation captured
carriesCaptured(m) ==
    LET c == captured[m.sn]
        payload == capturedPayload(c)
    IN  CASE m.tool = "apply_create_card" ->
                /\ c.tool = "create_card_preview"
                /\ m.fn = "createCard"
                /\ m.deckId = payload.deckId
                /\ m.content = payload.content
                /\ m.tags = payload.tags
          [] m.tool = "apply_update_card" ->
                /\ c.tool \in {"update_card_preview", "update_card_fields_preview"}
                /\ m.fn = "updateCard"
                /\ m.cardId = payload.cardId
                /\ m.updates = [content |-> some(payload.content), tags |-> payload.tags]
          [] m.tool = "apply_update_cards_batch" ->
                /\ c.tool = "update_cards_batch_preview"
                /\ m.fn = "updateCard"
                /\ m.item \in 1..Len(payload.updates)
                /\ m.cardId = payload.updates[m.item].cardId
                /\ m.updates = [content |-> some(payload.updates[m.item].content),
                                tags |-> payload.updates[m.item].tags]
          [] m.tool = "apply_tags_update" ->
                /\ c.tool \in {"add_tags_preview", "remove_tags_preview"}
                /\ m.fn = "updateCard"
                /\ m.item \in 1..Len(payload.updates)
                /\ m.cardId = payload.updates[m.item].cardId
                /\ m.updates = [content |-> none,
                                tags |-> some(payload.updates[m.item].tags)]

\* C6: every external mutation an apply makes carries exactly the payload the
\* issuing preview captured (create: deckId, content, tags; update: cardId,
\* proposed content, tags; batch and tags: the per-card list, item by item in the
\* list's order); an apply that reports success has made the call for every item;
\* and an apply waits only for mutating calls, never for a read.
C6_AppliesCapturedPayload ==
    /\ \A k \in 1..Len(mutations) :
          /\ mutations[k].sn \in 1..Len(captured)
          /\ carriesCaptured(mutations[k])
          /\ mutations[k].item =
                1 + Cardinality({j \in 1..(k - 1) : mutations[j].sn = mutations[k].sn})
    /\ (lastIsApply /\ ~last.threw /\ last.result.success) =>
          Cardinality(callsFor(last.operation.sn)) =
              IF last.tool \in {"apply_create_card", "apply_update_card"}
              THEN 1
              ELSE Len(capturedPayload(captured[last.operation.sn]).updates)
    /\ \A p \in Slots : applyFrame(p) => slot[p].pc \in {"createCard", "updateCard"}

\* a batch of two updates was applied: two calls, both succeeded
C6_Witness ==
    /\ last.tool = "apply_update_cards_batch"
    /\ ~last.threw
    /\ last.result.success = TRUE
    /\ Len(mutations) = 2
    /\ mutations[1].cardId # mutations[2].cardId

\* C7 (as the specification states it): at every apply endpoint a live token of
\* another kind is answered with a rejection that differs from the one given for
\* an invalid, expired or missing token.
C7_Original ==
    (/\ lastIsApply
     /\ last.found = "live"
     /\ last.operation # null
     /\ last.operation.type \notin kindOf(last.tool)) =>
        /\ ~last.threw
        /\ last.result.success = FALSE
        /\ last.result # invalidTokenResult(last.tool)

\* a live create_card token was presented to apply_update_cards_batch
C7_Witness ==
    /\ last.tool = "apply_update_cards_batch"
    /\ last.found = "live"
    /\ last.operation # null
    /\ last.operation.type = "create_card"
    /\ last.result = invalidTokenResult(last.tool)

\* C8: a token that was never issued, one that was already consumed and one that
\* has expired all get the same answer: consumeToken hands out no operation, and
\* the apply endpoint returns one and the same result, which depends on the
\* endpoint only; none of the three cases goes on to an external call.
C8_UniformNotFound ==
    /\ (lastIsApply /\ last.found \in {"never", "consumed", "expired"}) =>
          /\ last.operation = null
          /\ ~last.threw
          /\ last.result = invalidTokenResult(last.tool)
    /\ \A p \in Slots :
          applyFrame(p) => slot[p].found \notin {"never", "consumed", "expired"}

\* a token with no lifetime left was presented to apply_tags_update a millisecond
\* after its preview
C8_Witness ==
    /\ last.tool = "apply_tags_update"
    /\ last.found = "expired"
    /\ last.operation = null
    /\ serial = 1
    /\ config.tokenExpiryMins = 0
    /\ now = 1

\* this step belongs to a preview call: it starts one or resumes one
previewStep ==
    \/ nStarted' # nStarted
    \/ \E p \in Slots : previewFrame(p) /\ slot'[p] # slot[p]

\* what a step of a preview call may change
C9_Step ==
    previewStep =>
        /\ mutations' = mutations
        /\ \/ pendingOperations' = pendingOperations /\ serial' = serial
           \/ /\ last'.tool \in PreviewTools
              /\ ~last'.threw
              /\ serial' = serial + 1
              /\ last'.result.token \in DOMAIN pendingOperations'
              /\ pendingOperations'[last'.result.token].sn = serial'
              /\ \A t \in DOMAIN pendingOperations' \ {last'.result.token} :
                    /\ t \in DOMAIN pendingOperations
                    /\ pendingOperations'[t] = pendingOperations[t]

\* a preview waits only for reads
C9_Reads == \A p \in Slots : previewFrame(p) => slot[p].pc \in {"getDeck", "getCard"}

\* C9: no step of a preview call (create, update, update-fields, batch, add-tags,
\* remove-tags) makes a mutating external call; a preview waits only for reads
\* (getDeck, getCard); and the only thing it does to the token store is, on its
\* last step, to add the one entry of the token it returns (entries it leaves in
\* the store are unchanged).
C9_PreviewsOnlyRead == []C9_Reads /\ [][C9_Step]_vars

\* a batch preview read two cards and returned its token; nothing was mutated
C9_Witness ==
    /\ last.tool = "update_cards_batch_preview"
    /\ ~last.threw
    /\ Len(last.reads) = 2
    /\ mutations = <<>>
    /\ DOMAIN pendingOperations = {last.result.token}

allOk(reads) == \A k \in 1..Len(reads) : reads[k] = "ok"

\* the preview in slot p ends in this step by returning its result
previewReturns(p) ==
    /\ previewFrame(p)
    /\ slot'[p] = idle
    /\ last'.tool = slot[p].tool
    /\ ~last'.threw

\* a preview throws exactly when a read failed, and stops reading there
C10_Reads ==
    /\ last.tool \in PreviewTools => (last.threw <=> ~allOk(last.reads))
    /\ \A p \in Slots :
          (previewFrame(p) /\ "reads" \in DOMAIN slot[p]) => allOk(slot[p].reads)

\* a preview step that does not return a result leaves the token store alone
C10_Step ==
    \A p \in Slots :
        (previewFrame(p) /\ slot'[p] # slot[p] /\ ~previewReturns(p)) =>
            /\ pendingOperations' = pendingOperations
            /\ serial' = serial
            /\ issued' = issued

\* C10: a preview fails as a whole exactly when one of its reads fails (the deck
\* lookup, or the fetch of any card of the list): it then throws, reads nothing
\* further and issues no token, and no step of it has touched the token store.
C10_FailedReadIssuesNothing == []C10_Reads /\ [][C10_Step]_vars

\* add_tags_preview fetched its first card, failed on the second, and the store
\* is still empty
C10_Witness ==
    /\ last.tool = "add_tags_preview"
    /\ last.threw
    /\ last.reads = <<"ok", "failed">>
    /\ pendingOperations = EmptyStore
    /\ serial = 0

\* the two previews of a single-card update
UpdatePreviewTools == {"update_card_preview", "update_card_fields_preview"}

\* C11: an update preview that returns has issued its token whether it reported
\* hasChanges true or false, and an apply_update_card given that token while it
\* is live, with the right phrase, makes the external update even though the
\* preview reported hasChanges=false.
C11_NoChangesStillApplies ==
    /\ (last.tool \in UpdatePreviewTools /\ ~last.threw) =>
          /\ last.result.hasChanges \in BOOLEAN
          /\ last.result.token \in issued
          /\ \E sn \in 1..Len(captured) :
                captured[sn] = [tool |-> last.tool, args |-> last.args,
                                result |-> last.result]
    /\ (/\ last.tool = "apply_update_card"
        /\ last.found = "live"
        /\ last.operation # null
        /\ last.operation.type = "update_card"
        /\ trim(toLowerCase(last.args.confirmation)) = ConfirmUpdate
        /\ ~captured[last.operation.sn].result.hasChanges) =>
           /\ last.threw \/ last.result.success
           /\ \E k \in 1..Len(mutations) :
                 /\ callsFor(last.operation.sn) = {k}
                 /\ mutations[k].fn = "updateCard"
                 /\ mutations[k].cardId = captured[last.operation.sn].args.cardId

\* a preview reported hasChanges=false, and the apply with its token went through
C11_Witness ==
    /\ last.tool = "apply_update_card"
    /\ ~last.threw
    /\ last.result.success = TRUE
    /\ last.operation # null
    /\ ~captured[last.operation.sn].result.hasChanges
    /\ Len(mutations) = 1

\* the two apply endpoints that walk a list
BatchApplyTools == {"apply_update_cards_batch", "apply_tags_update"}

\* the most recent call is a batch apply that passed the token and phrase checks
batchApplied ==
    /\ last.tool \in BatchApplyTools
    /\ last.operation # null
    /\ last.operation.type \in kindOf(last.tool)
    /\ trim(toLowerCase(last.args.confirmation)) = phraseOf(last.tool)

\* the items whose external update failed, by the replies the calls got
failedItems == {i \in 1..Len(last.reads) : last.reads[i] = "failed"}

\* C12: a batch apply (batch update or tag update) of N items attempts every item
\* exactly once, in payload order, even when earlier items fail: it never throws,
\* it makes N external calls, the i-th of them for item i, its result has N
\* entries, and entry i names card i and reports success iff the external update
\* of item i succeeded. When exactly one item k fails, exactly entry k has
\* success=false and the overall success is false.
C12_EveryItemOnce ==
    /\ last.tool \in BatchApplyTools => ~last.threw
    /\ batchApplied =>
          LET updates == last.operation.data.updates
              N == Len(updates)
              calls == callsFor(last.operation.sn)
              results == last.result.results
          IN  /\ Len(results) = N
              /\ Len(last.reads) = N
              /\ Cardinality(calls) = N
              /\ \A i \in 1..N :
                    /\ \E k \in calls :
                          /\ mutations[k].cardId = updates[i].cardId
                          /\ Cardinality({j \in calls : j < k}) = i - 1
                    /\ results[i].cardId = updates[i].cardId
                    /\ results[i].success <=> last.reads[i] = "ok"
              /\ \A k \in 1..N :
                    failedItems = {k} =>
                        /\ {i \in 1..N : ~results[i].success} = {k}
                        /\ last.result.success = FALSE
    /\ \A p \in Slots :
          (applyFrame(p) /\ slot[p].tool \in BatchApplyTools) =>
              /\ Cardinality(callsFor(slot[p].operation.sn)) = slot[p].i
              /\ Len(slot[p].results) = slot[p].i - 1

\* the first update of a tag apply failed and the second was still made
C12_Witness ==
    /\ batchApplied
    /\ last.tool = "apply_tags_update"
    /\ last.reads = <<"failed", "ok">>
    /\ Len(mutations) = 2
    /\ last.result.success = FALSE

\* C13: for a batch apply that passed the token and phrase checks, the overall
\* success is true iff no entry of the result has success=false (an empty batch
\* gives success=true and no entries), and the two counts of the summary are the
\* numbers of entries that succeeded and failed, adding up to the number of items.
C13_SuccessIffNoFailure ==
    batchApplied =>
        LET results == last.result.results
            N == Len(last.operation.data.updates)
            succeeded == {i \in 1..Len(results) : results[i].success}
            summary == last.result.summary
        IN  /\ last.result.success <=> (succeeded = 1..Len(results))
            /\ summary[3] = Cardinality(succeeded)
            /\ summary[5] = Len(results) - Cardinality(succeeded)
            /\ summary[3] + summary[5] = N
            /\ N = 0 => (last.result.success /\ results = <<>>)

\* a batch update with an empty list was applied
C13_Witness ==
    /\ batchApplied
    /\ last.tool = "apply_update_cards_batch"
    /\ last.operation.data.updates = <<>>
    /\ last.result.success = TRUE
    /\ last.result.results = <<>>

\* the previews that take a list of cards
ListPreviewTools == {"update_cards_batch_preview", "add_tags_preview", "remove_tags_preview"}

\* the cards a list preview was asked about, in request order
requestedCards(c) ==
    IF c.tool = "update_cards_batch_preview"
    THEN [k \in 1..Len(c.args.updates) |-> c.args.updates[k].cardId]
    ELSE c.args.cardIds

\* C14: a batch update preview and a tag preview issue one token for the whole
\* list, whatever the number of cards (zero included): no preview call issues
\* more than one token, a list preview that returns has issued the token it
\* returns, and that token's payload holds one entry per requested card, in
\* request order.
C14_OneTokenForTheList ==
    /\ serial <= nStarted
    /\ Len(captured) = serial
    /\ (last.tool \in ListPreviewTools /\ ~last.threw) =>
          /\ last.result.token \in issued
          /\ \E sn \in 1..serial :
                captured[sn] = [tool |-> last.tool, args |-> last.args,
                                result |-> last.result]
    /\ \A token \in DOMAIN pendingOperations :
          LET operation == pendingOperations[token]
              c == captured[operation.sn]
          IN  c.tool \in ListPreviewTools =>
                 /\ c.result.token = token
                 /\ Len(operation.data.updates) = Len(requestedCards(c))
                 /\ \A k \in 1..Len(requestedCards(c)) :
                       operation.data.updates[k].cardId = requestedCards(c)[k]

\* add_tags_preview was asked about two cards and its one token holds both
C14_Witness ==
    \E token \in DOMAIN pendingOperations :
        /\ captured[pendingOperations[token].sn].tool = "add_tags_preview"
        /\ Len(pendingOperations[token].data.updates) = 2
        /\ DOMAIN pendingOperations = {token}
        /\ serial = 1


\* ---- tag computations (TagSpec) ----

lastIsAdd == last # nothing /\ last.tool = "add_tags_preview"

lastIsRemove == last # nothing /\ last.tool = "remove_tags_preview"

currentTags == last.result.updates[1].oldTags

resultingTags == last.result.updates[1].newTags

sameTag(a, b) == toLowerCase(a) = toLowerCase(b)

\* some entry of the list is the tag, whatever the case
containsTag(list, t) == \E k \in 1..Len(list) : sameTag(list[k], t)

\* no tag occurs twice in the list, whatever the case
noTagTwice(list) ==
    \A i, j \in 1..Len(list) : sameTag(list[i], list[j]) => i = j

\* the list starts with the given list, entry by entry
startsWith(list, prefix) ==
    /\ Len(prefix) <= Len(list)
    /\ \A k \in 1..Len(prefix) : list[k] = prefix[k]

\* C15: adding tags that the card already has, whatever their case, leaves the
\* tag list as it is and reports hasChanges = false; adding x to a card tagged
\* x, y gives x, y.
C15_AddIsIdempotent ==
    lastIsAdd =>
        /\ (\A k \in 1..Len(last.args.tagsToAdd) :
                containsTag(currentTags, last.args.tagsToAdd[k]))
             => /\ resultingTags = currentTags
                /\ last.result.hasChanges = FALSE
                /\ last.payload.updates[1].tags = currentTags
        /\ (currentTags = <<tagx, tagy>> /\ last.args.tagsToAdd = <<tagx>>)
             => resultingTags = <<tagx, tagy>>

C15_Witness ==
    /\ lastIsAdd
    /\ currentTags = <<tagx, tagy>>
    /\ last.args.tagsToAdd = <<tagX>>
    /\ resultingTags = <<tagx, tagy>>
    /\ last.result.hasChanges = FALSE

\* C16: the resulting list starts with the current tags in their
\* order and spelling, contains every tag to add, and has no tag twice
\* whenever the current tags have none twice.
C16_Original ==
    lastIsAdd =>
        /\ startsWith(resultingTags, currentTags)
        /\ \A k \in 1..Len(last.args.tagsToAdd) :
               containsTag(resultingTags, last.args.tagsToAdd[k])
        /\ noTagTwice(currentTags) => noTagTwice(resultingTags)

\* a tag asked for twice on a card that has it not is put on the card twice
C16_Witness ==
    /\ lastIsAdd
    /\ currentTags = <<tagy>>
    /\ last.args.tagsToAdd = <<tagx, tagX>>
    /\ resultingTags = <<tagy, tagx, tagX>>
    /\ last.payload.updates[1].tags = <<tagy, tagx, tagX>>

\* the positions of the current tags that no tag to remove matches
keptPositions ==
    {k \in 1..Len(currentTags) :
        ~ containsTag(last.args.tagsToRemove, currentTags[k])}

\* the j-th smallest of a set of positions
nthPosition(S, j) ==
    CHOOSE k \in S : Cardinality({m \in S : m < k}) = j - 1

\* C17: removing tags gives the current tags without those that match a tag
\* to remove up to case, the others in their order; removing only tags that
\* the card does not have changes nothing and reports hasChanges = false.
C17_RemoveIsDifference ==
    lastIsRemove =>
        /\ Len(resultingTags) = Cardinality(keptPositions)
        /\ \A j \in 1..Len(resultingTags) :
               resultingTags[j] = currentTags[nthPosition(keptPositions, j)]
        /\ (\A k \in 1..Len(last.args.tagsToRemove) :
                ~ containsTag(currentTags, last.args.tagsToRemove[k]))
             => /\ resultingTags = currentTags
                /\ last.result.hasChanges = FALSE

C17_Witness ==
    /\ lastIsRemove
    /\ currentTags = <<tagx, tagy>>
    /\ last.args.tagsToRemove = <<tagz>>
    /\ resultingTags = <<tagx, tagy>>
    /\ last.result.hasChanges = FALSE

C17_WitnessMatch ==
    /\ lastIsRemove
    /\ currentTags = <<tagx, tagy>>
    /\ last.args.tagsToRemove = <<tagX>>
    /\ resultingTags = <<tagy>>
    /\ last.result.hasChanges


\* ---- typed-confirmation deletes (DeleteSpec) ----

\* the confirmation, trimmed and lower-cased, is the phrase lower-cased
typedPhrase(confirmation, phrase) ==
    trim(toLowerCase(confirmation)) = toLowerCase(phrase)

cardPhrase(cardId) == <<"d","e","l","e","t","e"," ","c","a","r","d"," ">> \o cardId

deckPhrase(name) == <<"d","e","l","e","t","e"," ","d","e","c","k"," ">> \o name

\* the delete_card calls in flight and the one that finished last
deleteCardCalls ==
    {slot[p] : p \in {q \in Slots : slot[q] # idle /\ slot[q].tool = "delete_card"}}
      \cup (IF last.tool = "delete_card" THEN {last} ELSE {})

deleteDeckCalls ==
    {slot[p] : p \in {q \in Slots : slot[q] # idle /\ slot[q].tool = "delete_deck"}}
      \cup (IF last.tool = "delete_deck" THEN {last} ELSE {})

requestsOf(fn) == {k \in 1..Len(mutations) : mutations[k].fn = fn}

\* C18: delete_card touches no token; it calls the external delete exactly
\* when the confirmation, trimmed and lower-cased, is "delete card <cardId>"
\* lower-cased, and otherwise returns success = false without an external call;
\* the delete is permanent only when the permanent flag was sent as true, and
\* soft when it was left out.
C18_DeleteCardGate ==
    /\ \A c \in deleteCardCalls :
          /\ pendingOperations = EmptyStore /\ issued = {} /\ obtained = {}
          /\ IF typedPhrase(c.input.confirmation, cardPhrase(c.input.cardId))
             THEN /\ Len(c.calls) = 1
                  /\ c.calls[1].fn = "deleteCard"
                  /\ c.calls[1].cardId = c.input.cardId
                  /\ c.calls[1].permanent = (c.input.permanent = some(TRUE))
                  /\ (c.input.permanent = none) => ~c.calls[1].permanent
             ELSE /\ c = last
                  /\ c.calls = <<>>
                  /\ ~c.threw
                  /\ c.result.success = FALSE
    /\ \A k \in requestsOf("deleteCard") :
          \E input \in DeleteCardInputs :
             /\ typedPhrase(input.confirmation, cardPhrase(mutations[k].cardId))
             /\ mutations[k].permanent = (input.permanent = some(TRUE))

C18_Witness ==
    /\ last.tool = "delete_card"
    /\ last.input.confirmation = <<" ","D","E","L","E","T","E"," ","C","A","R","D"," ","c","1"," ">>
    /\ last.input.permanent = none
    /\ ~last.threw
    /\ last.result.success
    /\ last.calls = << [fn |-> "deleteCard", cardId |-> <<"C","1">>, permanent |-> FALSE] >>
    /\ \E k \in requestsOf("deleteCard") : mutations[k].permanent

\* C19: with the deck-delete flag off, delete_deck returns success = false and
\* makes no external call, neither the fetch nor the delete of the deck,
\* whatever the confirmation, the correct one included.
C19_FlagOffNoCall ==
    ~config.allowDeckDelete =>
        /\ requestsOf("deleteDeck") = {}
        /\ \A p \in Slots : slot[p] # idle => slot[p].tool # "delete_deck"
        /\ \A c \in deleteDeckCalls :
              /\ c.calls = <<>>
              /\ ~c.threw
              /\ c.result.success = FALSE

C19_Witness ==
    /\ ~config.allowDeckDelete
    /\ last.tool = "delete_deck"
    /\ last.args.confirmation = <<"d","e","l","e","t","e"," ","d","e","c","k"," ","M","y"," ","D","e","c","k">>
    /\ last.result.success = FALSE
    /\ last.calls = <<>>
    /\ nStarted = MaxDeletes

\* C20: every external deck delete is a soft one (permanent = false), and is
\* made only with the deck-delete flag on, after the deck was fetched and the
\* confirmation matched "delete deck <name of the fetched deck>".
C20_DeckDeleteOnlySoft ==
    /\ \A k \in requestsOf("deleteDeck") :
          LET r == mutations[k]
          IN  /\ r.permanent = FALSE
              /\ config.allowDeckDelete
              /\ r.after = << [fn |-> "getDeck", deckId |-> r.deckId] >>
              /\ r.deck.id = r.deckId
              /\ typedPhrase(r.confirmation, deckPhrase(r.deck.name))
    /\ \A c \in deleteDeckCalls :
          \A k \in 1..Len(c.calls) :
             c.calls[k].fn = "deleteDeck" =>
                /\ k = 2
                /\ c.calls[k].permanent = FALSE
                /\ \E j \in requestsOf("deleteDeck") : mutations[j] = c.calls[k]
    /\ \A c \in deleteCardCalls :
          \A k \in 1..Len(c.calls) : c.calls[k].fn # "deleteDeck"

C20_Witness ==
    /\ config.allowDeckDelete
    /\ last.tool = "delete_deck"
    /\ last.args.confirmation = <<"D","e","l","e","t","e"," ","D","e","c","k"," ","M","Y"," ","D","E","C","K","\n">>
    /\ ~last.threw
    /\ last.result.success
    /\ requestsOf("deleteDeck") # {}
    /\ \A k \in requestsOf("deleteDeck") : ~mutations[k].permanent


\* the expected phrase that a rejected delete_deck call shows in its message
shownPhrase(c) == c.result.message[2]

\* C21: with the deck-delete flag on, a delete_deck call whose confirmation is
\* "delete deck <deckId>", for a deck whose name is something else than its
\* id, returns success = false and makes no external deck delete.
C21_IdInsteadOfName ==
    config.allowDeckDelete =>
        \A c \in deleteDeckCalls :
           (/\ c = last
            /\ ~c.threw
            /\ typedPhrase(c.args.confirmation, deckPhrase(c.args.deckId)))
           => \/ /\ c.result.success = FALSE
                 /\ \A k \in 1..Len(c.calls) : c.calls[k].fn # "deleteDeck"
                 /\ ~typedPhrase(c.args.confirmation, shownPhrase(c))
              \/ /\ c.result.success
                 /\ toLowerCase(c.calls[2].deck.name) = toLowerCase(c.args.deckId)

C21_Witness ==
    /\ config.allowDeckDelete
    /\ last.tool = "delete_deck"
    /\ last.args.confirmation = <<"d","e","l","e","t","e"," ","d","e","c","k"," ","D","1">>
    /\ ~last.threw
    /\ last.result.success = FALSE
    /\ shownPhrase(last) = <<"d","e","l","e","t","e"," ","d","e","c","k"," ","M","y"," ","D","e","c","k">>
    /\ last.calls = << [fn |-> "getDeck", deckId |-> <<"D","1">>] >>
    /\ requestsOf("deleteDeck") = {}


\* ---- the confirmation validator (ValidatorSpec) ----

lastIsValidate == last.fn = "validateDeleteConfirmation"

\* C22: the validator returns true exactly when the confirmation and the
\* phrase "delete <kind> <id>", both trimmed, are equal up to case; so
\* ("Delete Card ABC", "abc", card) is true and ("remove card abc", "abc",
\* card) is false.
C22_Original ==
    lastIsValidate =>
        /\ last.result =
              (trim(toLowerCase(last.args.confirmation))
                 = trim(toLowerCase(<<"d","e","l","e","t","e"," ">> \o last.args.type \o <<" ">>
                                      \o last.args.expectedId)))
        /\ (last.args = [confirmation |-> <<"D","e","l","e","t","e"," ","C","a","r","d"," ","A","B","C">>,
                         expectedId |-> <<"a","b","c">>, type |-> cardWord])
             => last.result
        /\ (last.args = [confirmation |-> <<"r","e","m","o","v","e"," ","c","a","r","d"," ","a","b","c">>,
                         expectedId |-> <<"a","b","c">>, type |-> cardWord])
             => ~last.result

\* the phrase for an id that ends in a space is refused, typed as it is
C22_Witness ==
    /\ lastIsValidate
    /\ last.args = [confirmation |-> <<"d","e","l","e","t","e"," ","c","a","r","d"," ","a","b","c"," ">>,
                    expectedId |-> <<"a","b","c"," ">>, type |-> cardWord]
    /\ last.result = FALSE


\* ---- expected rejections (CoordinatorSpec) ----

\* the finished apply met one of the expected rejections: no live token under
\* the name, a token of another kind, or a confirmation that is not the phrase
expectedRejection ==
    /\ lastIsApply
    /\ \/ last.found \in {"never", "consumed", "expired"}
       \/ last.operation = null
       \/ last.operation.type \notin kindOf(last.tool)
       \/ trim(toLowerCase(last.args.confirmation)) # phraseOf(last.tool)

\* the result is a record that says success = false and why
structuredRefusal(result) ==
    /\ "success" \in DOMAIN result
    /\ result.success = FALSE
    /\ \E field \in {"error", "summary", "message"} : field \in DOMAIN result

C23_WitnessDisabled ==
    /\ last.tool = "delete_deck"
    /\ ~config.allowDeckDelete
    /\ last.result.success = FALSE
    /\ serial = 1


\* ---- failures of the external API during an apply (Spec) ----

SingleApplyTools == {"apply_create_card", "apply_update_card"}

\* the finished apply got as far as its external call
lastProceeded ==
    /\ lastIsApply
    /\ last.operation # null
    /\ callsFor(last.operation.sn) # {}

\* C24: when the external call of apply_create_card or apply_update_card
\* fails, the call ends with that fault and no result; when an external call
\* of apply_update_cards_batch or apply_tags_update fails, the call raises no
\* fault and returns a result whose entry for that item has success = false
\* and the error.
C24_FaultOrItemResult ==
    /\ (last.tool \in SingleApplyTools /\ lastProceeded) =>
          /\ last.threw <=> (last.reads = <<"failed">>)
          /\ ~last.threw => last.result.success
    /\ (last.tool \in SingleApplyTools /\ last.threw) => lastProceeded
    /\ last.tool \in BatchApplyTools =>
          /\ ~last.threw
          /\ "results" \in DOMAIN last.result
          /\ \A i \in failedItems :
                /\ i <= Len(last.result.results)
                /\ last.result.results[i].success = FALSE
                /\ last.result.results[i].error = errorText
                /\ last.result.results[i].cardId = last.operation.data.updates[i].cardId

C24_Witness ==
    /\ last.tool = "apply_update_card"
    /\ last.threw
    /\ last.reads = <<"failed">>
    /\ \E k \in 1..Len(mutations) :
          mutations[k].fn = "updateCard" /\ mutations[k].tool = "apply_update_card"

C24_WitnessBatch ==
    /\ last.tool = "apply_tags_update"
    /\ ~last.threw
    /\ last.reads = <<"ok", "failed">>
    /\ last.result.results[2].success = FALSE
    /\ last.result.success = FALSE


\* ---- paginated scans (ScanSpec) ----

ScanTools == {"search_cards", "list_decks"}

lastIsScan == last.tool \in ScanTools

\* the item cap of the finished scan
capOf(c) ==
    IF c.tool = "list_decks" THEN ListDecksSafetyLimit
    ELSE IF c.args.deckId # none THEN ScopedFetchLimit ELSE UnscopedFetchLimit

\* the result carries the flag, and the flag is set
flagged(c, flag) == ~c.threw /\ flag \in DOMAIN c.result /\ c.result[flag]

\* C25: a list or search call whose scan ran out of time, or fetched as many
\* items as its cap, returns a result and raises no error; the result has
\* partial set when the time ran out and truncated set when the cap was
\* reached.
C25_Original ==
    lastIsScan =>
        /\ last.timedOut => flagged(last, "partial")
        /\ (~last.timedOut /\ last.fetched >= capOf(last)) => flagged(last, "truncated")

\* list_decks ends with the time-out error after the decks of two slow pages
C25_Witness ==
    /\ last.tool = "list_decks"
    /\ last.timedOut
    /\ last.threw
    /\ last.result.error = "MochiTimeoutError"
    /\ last.fetched = 200
    /\ now > TIMEOUT_MS

\* list_decks stops at its cap and says nothing of it
C25_WitnessCap ==
    /\ last.tool = "list_decks"
    /\ ~last.threw
    /\ last.fetched >= ListDecksSafetyLimit
    /\ DOMAIN last.result = {"decks"}

\* C26: search_cards reports a scannedCount of at most 1000 without a deckId
\* and at most 5000 with one, and truncated is true exactly when scannedCount
\* has reached that cap.
C26_ScanCap ==
    (last.tool = "search_cards" /\ ~last.threw) =>
        /\ last.args.deckId = none => last.result.scannedCount <= 1000
        /\ last.args.deckId # none => last.result.scannedCount <= 5000
        /\ last.result.truncated <=>
              (last.result.scannedCount = (IF last.args.deckId = none THEN 1000 ELSE 5000))
        /\ last.result.scannedCount <= last.fetched

\* an unscoped search that fetched past the cap reports the cap
C26_Witness ==
    /\ last.tool = "search_cards"
    /\ last.args.deckId = none
    /\ ~last.threw
    /\ last.fetched = 1050
    /\ last.result.scannedCount = 1000
    /\ last.result.truncated
    /\ ~last.result.partial

\* a scoped search that reports its cap as reached (no run gets there: 5000
\* cards take 50 pages, and the 32nd page arrives after 31 delays, past 45 s)
scopedCapReached ==
    /\ last.tool = "search_cards"
    /\ last.args.deckId # none
    /\ ~last.threw
    /\ last.result.truncated


\* ---- the shape of a preview's result (Spec) ----

\* the result shows what is to be done: a preview text, or the diff
hasPreviewText(result) == "preview" \in DOMAIN result \/ "diff" \in DOMAIN result

\* C27: every preview that returns (create, update, update-fields, batch
\* update, add-tags, remove-tags) returns a result with a preview text, a
\* token, an expiresAt and a message.
C27_Original ==
    (last.tool \in PreviewTools /\ ~last.threw) =>
        /\ hasPreviewText(last.result)
        /\ {"token", "expiresAt", "message"} \subseteq DOMAIN last.result

\* add_tags_preview returns its token without expiresAt and message
C27_Witness ==
    /\ last.tool = "add_tags_preview"
    /\ ~last.threw
    /\ DOMAIN last.result = {"preview", "token", "updates", "hasChanges"}
    /\ last.result.token \in DOMAIN pendingOperations

\* the other four previews return all four
fourFieldPreviews ==
    (last.tool \in PreviewTools \ {"add_tags_preview", "remove_tags_preview"}
       /\ ~last.threw) =>
        /\ hasPreviewText(last.result)
        /\ {"token", "expiresAt", "message"} \subseteq DOMAIN last.result

-----------------------------------------------------------------------------
(* Claims on the diff engine (DiffSpec) *)

lastIsDiff == last.fn = "generateDiff"

\* C28: generateDiff(x, x) has hasChanges = FALSE for every text x, and
\* generateDiff(x, y) has hasChanges = TRUE whenever x and y differ in any
\* line: hasChanges is TRUE if and only if x and y are different texts.
C28_HasChangesIffDifferent ==
    lastIsDiff =>
        (last.result.hasChanges <=> last.args.original # last.args.proposed)

\* two texts that differ only in a line one of them does not have
C28_Witness ==
    /\ lastIsDiff
    /\ last.args.original = <<"a">>
    /\ last.args.proposed = <<"a", "\n">>
    /\ last.result.hasChanges
    /\ last.result.diff = << <<" ", <<"a">> >>, <<"+", <<>> >> >>

\* a text compared with itself
C28_WitnessSame ==
    /\ lastIsDiff
    /\ last.args.original = <<"a", "\n", "b">>
    /\ last.args.proposed = last.args.original
    /\ ~last.result.hasChanges
    /\ Len(last.result.diff) = 2

-----------------------------------------------------------------------------
(* Claims on createToken (TokenSpec) *)

\* the step is a call of createToken
createStep ==
    /\ now' = now
    /\ hist'[1] = hist[2]
    /\ hist'[2].fn = "createToken"
    /\ hist'[2].at = now
    /\ issued' = issued \cup {hist'[2].token}

\* the entries of the store whose expiry had passed at time t, and the others
expiredAt(ops, t) == {k \in DOMAIN ops : isExpired(ops[k], t)}
liveAt(ops, t) == DOMAIN ops \ expiredAt(ops, t)

\* the entry under k is the same pending operation in both stores
sameOperation(a, b, k) ==
    /\ k \in DOMAIN a /\ k \in DOMAIN b
    /\ a[k].type = b[k].type
    /\ a[k].data = b[k].data
    /\ a[k].expiresAt = b[k].expiresAt

\* C29: createToken sweeps the store before inserting: right after it
\* returns, the store holds no entry whose expiresAt had already passed when
\* it was called, and every entry that was not yet expired is still present
\* with unchanged kind, payload and expiry.
\* (An expired entry counts as gone when the entry under its id is the one
\* this call has just inserted.)
C29_Original ==
    [][createStep =>
         /\ \A k \in expiredAt(pendingOperations, now) :
               k \notin DOMAIN pendingOperations' \/ k = hist'[2].token
         /\ \A k \in liveAt(pendingOperations, now) :
               sameOperation(pendingOperations, pendingOperations', k)]_vars

\* C29 amended: createToken sweeps the store before inserting: right after
\* it returns, every entry whose expiresAt had passed when it was called is
\* gone (the id it drew names the new entry), every entry that was not yet
\* expired and is stored under another id than the one drawn is still
\* present with unchanged kind, payload and expiry, and the store holds
\* these entries and the new one, nothing else. A live entry under the id
\* drawn is replaced by the new one.
C29_SweepThenInsert ==
    [][createStep =>
         /\ \A k \in expiredAt(pendingOperations, now) :
               k \notin DOMAIN pendingOperations' \/ k = hist'[2].token
         /\ \A k \in liveAt(pendingOperations, now) \ {hist'[2].token} :
               pendingOperations'[k] = pendingOperations[k]
         /\ DOMAIN pendingOperations' =
               liveAt(pendingOperations, now) \cup {hist'[2].token}]_vars

\* a live one-minute entry was replaced by a later createToken that drew its
\* id: the entry now expires at once and holds another payload
C29_WitnessReplaced ==
    /\ hist[1].fn = "createToken" /\ hist[2].fn = "createToken"
    /\ hist[2].token = hist[1].token
    /\ hist[1].expiryMins = 1 /\ hist[2].expiryMins = 0
    /\ hist[2].at <= hist[1].at + 60000
    /\ hist[1].data # hist[2].data
    /\ pendingOperations[hist[2].token].expiresAt = hist[2].at
    /\ pendingOperations[hist[2].token].data = hist[2].data

\* a createToken a minute later swept the expired entry of the first
C29_Witness ==
    /\ hist[1].fn = "createToken" /\ hist[2].fn = "createToken"
    /\ hist[1].token = "t1" /\ hist[2].token = "t2"
    /\ hist[1].expiryMins = 1 /\ hist[2].expiryMins = 1
    /\ hist[2].at > hist[1].at + 60000
    /\ DOMAIN pendingOperations = {"t2"}

\* C30: createToken returns a new unique token id: the id is different from
\* every id in the store at that moment (the expired entries being swept
\* first), so that issuing never replaces another live pending operation.
C30_Original ==
    [][createStep =>
         /\ hist'[2].token \notin liveAt(pendingOperations, now)
         /\ \A k \in liveAt(pendingOperations, now) :
               pendingOperations'[k] = pendingOperations[k]]_vars

\* C30 amended: createToken draws a random id and does not compare it with
\* the store: after it returns, the returned token is a key of the store and
\* names the operation just issued (its kind, payload and expiry), so a token
\* maps to one pending operation; every live operation under another id is
\* untouched, and a live operation under the same id is replaced.
C30_IssueStoresUnderDrawnId ==
    [][createStep =>
         LET token == hist'[2].token
         IN  /\ token \in DOMAIN pendingOperations'
             /\ pendingOperations'[token].type = hist'[2].type
             /\ pendingOperations'[token].data = hist'[2].data
             /\ pendingOperations'[token].expiresAt
                   = now + hist'[2].expiryMins * 60000
             /\ pendingOperations'[token].createdAt = now
             /\ \A k \in liveAt(pendingOperations, now) \ {token} :
                   /\ k \in DOMAIN pendingOperations'
                   /\ pendingOperations'[k] = pendingOperations[k]]_vars

\* two createToken calls in the same millisecond drew the same id: the
\* store holds one operation, the second, and the first is lost
C30_Witness ==
    /\ hist[1].fn = "createToken" /\ hist[2].fn = "createToken"
    /\ hist[2].token = hist[1].token
    /\ hist[2].at = hist[1].at
    /\ hist[1].expiryMins = 1 /\ hist[2].expiryMins = 1
    /\ hist[1].type = "create_card" /\ hist[2].type = "batch_tag_update"
    /\ DOMAIN pendingOperations = {hist[2].token}
    /\ pendingOperations[hist[2].token].type = "batch_tag_update"

\* the store is a map: whatever the ids drawn, an id names one entry at most
\* and every entry was put there by a createToken
oneOperationPerToken ==
    /\ DOMAIN pendingOperations \subseteq TokenIds
    /\ DOMAIN pendingOperations \subseteq issued
    /\ \A k \in DOMAIN pendingOperations : pendingOperations[k].type \in OpTypes

-----------------------------------------------------------------------------
(* Claims on getToken (PeekSpec) *)

\* the last call was getToken
lastIsPeek == hist[2].fn = "getToken"

\* the step is a call of getToken
peekStep ==
    /\ hist'[1] = hist[2]
    /\ hist'[2].fn = "getToken"
    /\ hist'[2].at = now
    /\ now' = now

\* the entry of the store under the token at the time of the last call is live
liveNow(token, t) ==
    /\ token \in DOMAIN pendingOperations
    /\ ~isExpired(pendingOperations[token], t)

\* C31: getToken is read-only. It leaves the token store unchanged; it
\* returns the pending operation of a present, unexpired token, as often as
\* it is called, and null for an absent or expired token; and a consume
\* after a peek that returned the operation returns that operation too
\* (unless the token has expired in between).
C31_PeekIsReadOnly ==
    /\ [][peekStep => pendingOperations' = pendingOperations]_vars
    /\ [](lastIsPeek =>
            /\ liveNow(hist[2].token, hist[2].at)
                  => hist[2].ret = pendingOperations[hist[2].token]
            /\ ~liveNow(hist[2].token, hist[2].at) => hist[2].ret = null)
    /\ []((/\ hist[1].fn = "createToken" /\ lastIsPeek
            /\ hist[2].token = hist[1].token)
             => IF hist[2].at <= hist[1].at + hist[1].expiryMins * 60000
                THEN /\ hist[2].ret # null
                     /\ hist[2].ret.type = hist[1].type
                     /\ hist[2].ret.data = hist[1].data
                ELSE hist[2].ret = null)
    /\ []((/\ hist[1].fn = "getToken" /\ lastIsPeek
            /\ hist[2].token = hist[1].token
            /\ hist[1].ret # null
            /\ hist[2].at <= hist[1].ret.expiresAt)
             => hist[2].ret = hist[1].ret)
    /\ []((/\ hist[1].fn = "getToken" /\ hist[2].fn = "consumeToken"
            /\ hist[2].token = hist[1].token
            /\ hist[1].ret # null
            /\ hist[2].at <= hist[1].ret.expiresAt)
             => hist[2].ret = hist[1].ret)

\* a peek returned the operation and the consume after it returned it again
C31_Witness ==
    /\ hist[1].fn = "getToken" /\ hist[2].fn = "consumeToken"
    /\ hist[2].token = hist[1].token
    /\ hist[1].ret # null
    /\ hist[1].ret.type = "update_card"
    /\ hist[2].ret = hist[1].ret
    /\ hist[2].token \notin DOMAIN pendingOperations

\* two peeks in a row returned the operation, which is still in the store
C31_WitnessTwice ==
    /\ hist[1].fn = "getToken" /\ lastIsPeek
    /\ hist[2].token = hist[1].token
    /\ hist[1].ret # null /\ hist[2].ret = hist[1].ret
    /\ hist[2].token \in DOMAIN pendingOperations

\* a peek of an expired entry returned null and left the entry in the store
C31_WitnessExpired ==
    /\ lastIsPeek
    /\ hist[2].ret = null
    /\ hist[2].token \in DOMAIN pendingOperations
    /\ isExpired(pendingOperations[hist[2].token], hist[2].at)

-----------------------------------------------------------------------------
(* Claims on the update-fields preview (Spec) *)

\* the update-fields previews that returned
fieldsPreviews ==
    {sn \in 1..Len(captured) : captured[sn].tool = "update_card_fields_preview"}

\* the field the preview is to use: the supplied one, or the one parsed from
\* the card's current content (the preview returns it as `original`)
fieldOf(c, name) ==
    IF c.args[name].def THEN c.args[name].val
    ELSE parseCardContent(c.result.original)[name]

\* question and answer, each without its outer blank lines, around the
\* separator line set off by an empty line on both sides
rebuilt(c) ==
    trimText(fieldOf(c, "question")) \o <<"", "---", "">>
        \o trimText(fieldOf(c, "answer"))

\* C32: the update-fields preview builds the proposed content from the
\* supplied question and/or answer, taking a field that was not supplied from
\* the parse of the card's current content; the update_card token it issues
\* carries that content and the optional tags; and hasChanges is true
\* whenever tags are supplied, even if the rebuilt content is the current one.
C32_FieldsMergedOntoCurrent ==
    /\ \A sn \in fieldsPreviews :
          LET c == captured[sn]
          IN  /\ c.result.proposed = rebuilt(c)
              /\ c.args.tags.def => c.result.hasChanges
              /\ c.result.hasChanges <=>
                    (c.args.tags.def \/ c.result.proposed # c.result.original)
    /\ \A token \in DOMAIN pendingOperations :
          LET operation == pendingOperations[token]
              c == captured[operation.sn]
          IN  c.tool = "update_card_fields_preview" =>
                 /\ c.result.token = token
                 /\ operation.type = "update_card"
                 /\ operation.data.cardId = c.args.cardId
                 /\ operation.data.content = rebuilt(c)
                 /\ operation.data.tags = c.args.tags

\* only tags and an answer equal to the current one were supplied: the
\* proposed content is the current content and hasChanges is true
C32_Witness ==
    /\ last.tool = "update_card_fields_preview"
    /\ ~last.threw
    /\ ~last.args.question.def
    /\ last.args.tags.def
    /\ last.result.original = <<"Q", "", "---", "", "A">>
    /\ last.result.proposed = last.result.original
    /\ last.result.hasChanges
    /\ last.result.token \in DOMAIN pendingOperations
    /\ pendingOperations[last.result.token].data.content = last.result.original

\* the question was supplied and the answer came from the current content
C32_WitnessRetained ==
    /\ last.tool = "update_card_fields_preview"
    /\ ~last.threw
    /\ last.result.original = <<"Q", "", "---", "", "A">>
    /\ last.result.proposed = <<"Q2", "", "---", "", "A">>

-----------------------------------------------------------------------------
(* Claims on the shape of the diff (DiffSpec) *)

\* the proposed text is the original text with one line put on top
topInsertion ==
    /\ lastIsDiff
    /\ LET o == split(last.args.original)
           q == split(last.args.proposed)
       IN  /\ Len(q) = Len(o) + 1
           /\ SubSeq(q, 2, Len(q)) = o

\* the marks of the diff, in order
marks(diff) == [i \in DOMAIN diff |-> diff[i][1]]

\* the entries of the diff that carry the mark m, in order
RECURSIVE marked(_, _, _)
marked(diff, ms, i) ==
    IF i > Len(diff) THEN <<>>
    ELSE (IF diff[i][1] \in ms THEN <<diff[i][2]>> ELSE <<>>) \o marked(diff, ms, i + 1)

\* the lines of the original that stand under a line equal to themselves
\* once the new line is on top
underEqual ==
    LET o == split(last.args.original)
        q == split(last.args.proposed)
    IN  {i \in 1..Len(o) : o[i] = q[i]}

\* C33 as stated: when the proposed text is the original with a single line
\* inserted at the top, every line of the original is emitted as removed and
\* added, never as context.
C33_Original ==
    topInsertion => \A i \in DOMAIN last.result.diff : last.result.diff[i][1] # " "

\* C33 amended: the diff is positional and does not realign: when the
\* proposed text is the original with a single line inserted at the top,
\* line i of the original is compared with the line that now stands at i
\* (the inserted line for i = 1, line i - 1 of the original otherwise); it is
\* emitted as removed, and that line as added, when the two differ, and as
\* context when they are equal, so that every line of the original is marked
\* as changed only if no line equals the one above it.
C33_PositionalDiff ==
    topInsertion =>
        LET o == split(last.args.original)
            q == split(last.args.proposed)
            d == last.result.diff
        IN  /\ marked(d, {" "}, 1) = marked([i \in 1..Len(o) |-> <<IF i \in underEqual THEN " " ELSE "x", o[i]>>], {" "}, 1)
            /\ Len(marked(d, {"-"}, 1)) = Len(o) - Cardinality(underEqual)
            /\ Len(marked(d, {"+"}, 1)) = Len(q) - Cardinality(underEqual)
            /\ last.result.hasChanges

\* a line put on top of two different lines: nothing is context
C33_Witness ==
    /\ topInsertion
    /\ last.args.original = <<"a", "\n", "b">>
    /\ last.args.proposed = <<"b", "\n", "a", "\n", "b">>
    /\ marks(last.result.diff) = <<"-", "+", "-", "+", "+">>

\* a line put on top of two equal lines: the second is context
C33_WitnessContext ==
    /\ topInsertion
    /\ last.args.original = <<"a", "\n", "a">>
    /\ last.args.proposed = <<"b", "\n", "a", "\n", "a">>
    /\ marks(last.result.diff) = <<"-", "+", " ", "+">>

\* how many of the first k entries of the diff carry a mark of ms
countMarked(diff, ms, k) == Cardinality({j \in 1..k : diff[j][1] \in ms})

\* C38: the diff preserves both inputs: read in order, the context and
\* removed entries are exactly the lines of the original text, the context
\* and added entries are exactly the lines of the proposed text, and at an
\* index where the lines differ the removed line is emitted before the added
\* one (an added line of index j comes after the original's line j, when the
\* original has one, and a removed line of index j after the proposed line
\* j - 1).
C38_DiffPreservesInputs ==
    lastIsDiff =>
        LET o == split(last.args.original)
            q == split(last.args.proposed)
            d == last.result.diff
        IN  /\ marked(d, {" ", "-"}, 1) = o
            /\ marked(d, {" ", "+"}, 1) = q
            /\ \A k \in DOMAIN d : d[k][1] \in {" ", "-", "+"}
            /\ \A k \in DOMAIN d :
                  d[k][1] = "+" =>
                     countMarked(d, {" ", "-"}, k)
                        >= min(countMarked(d, {" ", "+"}, k), Len(o))
            /\ \A k \in DOMAIN d :
                  d[k][1] = "-" =>
                     countMarked(d, {" ", "+"}, k)
                        >= min(countMarked(d, {" ", "-"}, k) - 1, Len(q))

\* two lines against one other line: removed, added, removed
C38_Witness ==
    /\ lastIsDiff
    /\ last.args.original = <<"a", "\n", "b">>
    /\ last.args.proposed = <<"b">>
    /\ last.result.diff = << <<"-", <<"a">> >>, <<"+", <<"b">> >>, <<"-", <<"b">> >> >>

-----------------------------------------------------------------------------
(* Claims on the list tools (SerialSpec) *)

\* the tools whose loop reads one card per item, and those whose loop writes
ReadLoopTools == ListPreviewTools \cup {"get_cards"}

\* the slots whose call is inside its loop, waiting for the call of item i
inLoop == {p \in Slots : slot[p] # idle /\ "i" \in DOMAIN slot[p]}

\* the items whose request the batch apply of operation sn has sent, in order
itemsSent(tool, sn) ==
    LET ofThisCall(m) == m.tool = tool /\ m.sn = sn
        sent == SelectSeq(mutations, ofThisCall)
    IN  [k \in 1..Len(sent) |-> sent[k].item]

\* how many of the external calls of the call in slot p have come back
completed(p) ==
    IF slot[p].tool \in BatchApplyTools THEN Len(slot[p].replies) ELSE Len(slot[p].reads)

\* C34: within one batch or multi-card operation (batch preview, batch apply,
\* tag preview, tag apply, multi-get) the external call for item i + 1 is
\* issued only after the call for item i has completed: while the operation
\* waits for item i exactly i - 1 calls have come back, the requests it has
\* sent are those of items 1..i in this order, and so at most one of its
\* calls is in flight.
C34_OneCallInFlight ==
    /\ \A p \in inLoop :
          /\ slot[p].tool \in ReadLoopTools \cup BatchApplyTools
          /\ completed(p) = slot[p].i - 1
          /\ slot[p].tool \in BatchApplyTools =>
                itemsSent(slot[p].tool, slot[p].operation.sn) = [k \in 1..slot[p].i |-> k]
    /\ \A k \in 1..Len(mutations) :
          mutations[k].tool \in BatchApplyTools =>
             LET sent == itemsSent(mutations[k].tool, mutations[k].sn)
             IN  sent = [j \in 1..Len(sent) |-> j]
    /\ (last.tool \in BatchApplyTools /\ last.operation # null /\ last.reads # <<>>
          /\ \A p \in inLoop : slot[p].tool # last.tool) =>
             Len(itemsSent(last.tool, last.operation.sn)) = Len(last.reads)

\* a batch apply waits for its second update: one reply is in, two requests
\* have been sent
C34_Witness ==
    \E p \in inLoop :
        /\ slot[p].tool = "apply_update_cards_batch"
        /\ slot[p].i = 2
        /\ slot[p].replies = <<"failed">>
        /\ itemsSent(slot[p].tool, slot[p].operation.sn) = <<1, 2>>

\* a multi-get waits for its second card
C34_WitnessGet ==
    \E p \in inLoop :
        /\ slot[p].tool = "get_cards"
        /\ slot[p].i = 2
        /\ slot[p].reads = <<"ok">>

-----------------------------------------------------------------------------
(* Claims on the pagination loops (ScanFairSpec) *)

\* the item cap of the loop of the call in slot p: 1000 decks, the smaller of
\* the limit and 5000 cards
loopCap(f) ==
    IF f.tool = "list_decks" THEN ListDecksSafetyLimit
    ELSE min(f.targetLimit, ListCardsSafetyLimit)

\* the loop of the call in slot p goes round once more
goesOn(p) ==
    /\ slot[p] # idle
    /\ slot'[p] # idle
    /\ slot'[p].pages = slot[p].pages + 1

\* C35: the pagination loops of listDecks and listCards terminate for every
\* sequence of server pages. The loop goes round again only after a page
\* that had docs and brought a bookmark different from the one sent, and
\* while the items are fewer than the cap (1000 decks; the smaller of the
\* limit and 5000 cards), so the item count grows with every round; every
\* scan that has started comes to its end; and listCards never returns more
\* than the requested limit.
C35_PaginationTerminates ==
    /\ [][\A p \in Slots :
            goesOn(p) =>
               /\ slot'[p].all > slot[p].all
               /\ slot'[p].bookmark # none
               /\ slot'[p].bookmark # slot[p].bookmark
               /\ slot'[p].all < loopCap(slot[p])
               /\ now' - slot[p].startTime <= TIMEOUT_MS]_vars
    /\ [](\A p \in Slots : slot[p] # idle => slot[p].all < loopCap(slot[p]))
    /\ []((last.tool = "search_cards" /\ ~last.threw) =>
             last.result.scannedCount <= min(capOf(last), ListCardsSafetyLimit))
    /\ \A p \in Slots : (slot[p] # idle) ~> (slot[p] = idle)

\* list_decks stopped at the cap of 1000 decks after twenty pages of fifty
C35_Witness ==
    /\ last.tool = "list_decks"
    /\ ~last.threw
    /\ last.pages = 20
    /\ last.fetched = ListDecksSafetyLimit

\* a scan stopped at a cursor that came twice
C35_WitnessRepeat ==
    /\ last.tool = "search_cards"
    /\ ~last.threw /\ ~last.timedOut
    /\ last.pages = 3
    /\ last.fetched = 150

-----------------------------------------------------------------------------
(* Claims on hasChanges of the tag previews (TagSpec) *)

TagPreviewTools == {"add_tags_preview", "remove_tags_preview"}

\* C36: for add-tags and remove-tags previews hasChanges is true if and only
\* if at least one card's new tag count differs from its old tag count, and
\* a card's counts differ exactly when its new tag list differs from its old
\* one: the count test misses no change and reports none that is not one.
C36_CountTestIsExact ==
    last.tool \in TagPreviewTools =>
        LET updates == last.result.updates
        IN  /\ last.result.hasChanges <=>
                  \E k \in 1..Len(updates) :
                     Len(updates[k].newTags) # Len(updates[k].oldTags)
            /\ \A k \in 1..Len(updates) :
                  (Len(updates[k].newTags) # Len(updates[k].oldTags))
                     <=> (updates[k].newTags # updates[k].oldTags)
            /\ last.result.hasChanges <=>
                  \E k \in 1..Len(updates) : updates[k].newTags # updates[k].oldTags

\* a removal that takes one of two tags, named in another case
C36_Witness ==
    /\ last.tool = "remove_tags_preview"
    /\ last.args.tagsToRemove = <<tagX>>
    /\ last.result.updates[1].oldTags = <<tagx, tagy>>
    /\ last.result.updates[1].newTags = <<tagy>>
    /\ last.result.hasChanges

\* an addition of a tag the card has in another case: nothing changes
C36_WitnessNoChange ==
    /\ last.tool = "add_tags_preview"
    /\ last.args.tagsToAdd = <<tagX>>
    /\ last.result.updates[1].oldTags = <<tagx>>
    /\ last.result.updates[1].newTags = <<tagx>>
    /\ ~last.result.hasChanges

-----------------------------------------------------------------------------
(* Claims on a failed single-item apply (Spec) *)

\* the last call was a single-item apply whose external call failed
lastApplyFailed == last.tool \in SingleApplyTools /\ last.threw

\* the step is an apply that names the token of the failed apply again, no
\* later preview having stored an operation under that id
retryStep ==
    /\ lastApplyFailed
    /\ last' # last
    /\ last'.tool \in ApplyTools
    /\ last'.args.token = last.args.token
    /\ last.args.token \notin DOMAIN pendingOperations

\* C37: after an apply_create_card or apply_update_card whose token and
\* phrase were valid but whose external call failed, the token stays
\* consumed: the operation is no longer in the store, a retry of apply with
\* the same token gets the invalid-or-expired result, and the mutation has
\* been requested once and is not requested again; a new preview is needed.
C37_FailedApplyKeepsTokenConsumed ==
    /\ [](lastApplyFailed =>
            /\ last.operation # null
            /\ last.operation.type \in kindOf(last.tool)
            /\ confirmationMatches(last.args.confirmation, phraseOf(last.tool))
            /\ \A token \in DOMAIN pendingOperations :
                  pendingOperations[token].sn # last.operation.sn
            /\ \A p \in Slots :
                  applyFrame(p) => slot[p].operation.sn # last.operation.sn
            /\ Cardinality(callsFor(last.operation.sn)) = 1)
    /\ [][retryStep =>
            /\ last'.operation = null
            /\ ~last'.threw
            /\ last'.result = invalidTokenResult(last'.tool)
            /\ mutations' = mutations]_vars

\* apply_create_card failed at its external call: the store is empty, the
\* token has been issued and is gone, one request was made
C37_Witness ==
    /\ last.tool = "apply_create_card"
    /\ last.threw
    /\ last.reads = <<"failed">>
    /\ pendingOperations = EmptyStore
    /\ last.args.token \in issued
    /\ Len(mutations) = 1

\* an apply that named a consumed token after the one request had been made
C37_WitnessRetry ==
    /\ last.tool = "apply_create_card"
    /\ last.found = "consumed"
    /\ last.result = invalidTokenResult("apply_create_card")
    /\ Len(mutations) = 1
    /\ \A p \in Slots : slot[p] = idle

-----------------------------------------------------------------------------
(* Claims on what an apply sends (Spec) *)

\* the requests to updateCard that the applies have made
updateRequests == {k \in 1..Len(mutations) : mutations[k].fn = "updateCard"}

\* the tags the preview was given for the card of request m (an optional)
tagsGivenAtPreview(m) ==
    LET payload == capturedPayload(captured[m.sn])
    IN  IF m.tool = "apply_update_card" THEN payload.tags
        ELSE payload.updates[m.item].tags

\* C39: an apply changes only what the preview captured. apply_tags_update
\* posts the tag list of each card and never a content field;
\* apply_update_card and apply_update_cards_batch post the content, and a
\* tag field only when the preview was given tags (then those tags), so a
\* card's tags are left alone when no tags were given at preview.
C39_OnlyCapturedFields ==
    \A k \in updateRequests :
        LET m == mutations[k]
            body == updateCardBody(m.updates)
        IN  IF m.tool = "apply_tags_update"
            THEN /\ DOMAIN body = {"manual-tags"}
                 /\ body["manual-tags"]
                       = capturedPayload(captured[m.sn]).updates[m.item].tags
            ELSE /\ m.tool \in {"apply_update_card", "apply_update_cards_batch"}
                 /\ "content" \in DOMAIN body
                 /\ DOMAIN body \subseteq {"content", "manual-tags"}
                 /\ "manual-tags" \in DOMAIN body <=> tagsGivenAtPreview(m).def
                 /\ tagsGivenAtPreview(m).def =>
                       body["manual-tags"] = tagsGivenAtPreview(m).val

\* a batch whose first update came without tags and whose second with tags:
\* the first request carries the content only
C39_Witness ==
    /\ Len(mutations) = 2
    /\ mutations[1].tool = "apply_update_cards_batch"
    /\ mutations[2].tool = "apply_update_cards_batch"
    /\ DOMAIN updateCardBody(mutations[1].updates) = {"content"}
    /\ DOMAIN updateCardBody(mutations[2].updates) = {"content", "manual-tags"}

\* a tag apply posted the tag list of a card and nothing else
C39_WitnessTags ==
    /\ Len(mutations) >= 1
    /\ mutations[1].tool = "apply_tags_update"
    /\ DOMAIN updateCardBody(mutations[1].updates) = {"manual-tags"}

-----------------------------------------------------------------------------
(* Claims on who changes the token store (StoreSpec) *)

\* the tools that have no business with the token store
StoreFreeTools == {"delete_card", "delete_deck", "create_deck", "get_cards"}

\* the step belongs to a call of one of these tools: the call starts, goes
\* on to its next request, or ends, by a return or by a fault
storeFreeStep ==
    \/ \E p \in Slots :
          /\ slot'[p] # slot[p]
          /\ \/ slot[p] # idle /\ slot[p].tool \in StoreFreeTools
             \/ slot'[p] # idle /\ slot'[p].tool \in StoreFreeTools
    \/ /\ slot' = slot
       /\ last'.tool \in StoreFreeTools
       /\ last' # last \/ nStarted' # nStarted

\* a preview issued a token: the store gained the entry under the drawn id,
\* lost entries that had expired, and kept every other entry as it was
previewChange ==
    /\ serial' = serial + 1
    /\ last'.tool \in PreviewTools
    /\ last'.result.token \in DOMAIN pendingOperations'
    /\ pendingOperations'[last'.result.token].sn = serial'
    /\ \A k \in DOMAIN pendingOperations' \ {last'.result.token} :
          k \in DOMAIN pendingOperations /\ pendingOperations'[k] = pendingOperations[k]
    /\ \A k \in DOMAIN pendingOperations \ DOMAIN pendingOperations' :
          isExpired(pendingOperations[k], now)

\* the apply that made this step, as the token it named
appliedToken ==
    IF \E p \in Slots : slot[p] = idle /\ slot'[p] # idle /\ slot'[p].tool \in ApplyTools
    THEN {slot'[p].args.token : p \in {q \in Slots : slot[q] = idle /\ slot'[q] # idle}}
    ELSE IF slot' = slot /\ last'.tool \in ApplyTools THEN {last'.args.token}
    ELSE {}

\* an apply removed the entry it named and nothing else
applyChange ==
    \E token \in appliedToken :
        /\ token \in DOMAIN pendingOperations
        /\ DOMAIN pendingOperations' = DOMAIN pendingOperations \ {token}
        /\ \A k \in DOMAIN pendingOperations' : pendingOperations'[k] = pendingOperations[k]

\* clearAllTokens emptied the store
clearChange ==
    /\ hist'[2].fn = "clearAllTokens"
    /\ pendingOperations' = EmptyStore

C40_WitnessRead ==
    /\ last.tool = "get_cards"
    /\ ~last.threw
    /\ Len(last.result.cards) = 2
    /\ pendingOperations # EmptyStore

\* a deck was created and one trashed while a token was pending
C40_WitnessDeck ==
    /\ last.tool \in {"create_deck", "delete_deck"}
    /\ ~last.threw
    /\ last.result.success
    /\ pendingOperations # EmptyStore

=============================================================================
